---- MODULE Spec2Model ----
(***************************************************************************)
(* The generate-playlist command of the spotify-player extension, in the   *)
(* three revisions the repository holds:                                   *)
(*   "part_000"          src/unnamed/part_000                              *)
(*   "generatePlaylist"  src/extensions/spotify-player/src/                *)
(*                       generatePlaylist.tsx, lines 1-695                 *)
(*   "part_009"          src/unnamed/part_009, lines 1-548                 *)
(*                                                                         *)
(* Spec         the Command component: React state, the handlers and the   *)
(*              asynchronous generate / tune requests in flight.           *)
(* SpecResolve  resolveTracksOnSpotify: one concurrent task per suggested  *)
(*              track, joined by Promise.all.                              *)
(* SpecParse    parseAiPlaylistResponse / cleanAIResponse on the text of   *)
(*              an AI answer.                                              *)
(* SpecTracks   const tracks: the list the command displays.               *)
(* SpecPlayer   playPlaylist and addSongsToQueue against the player.       *)
(* SpecYouTube  the Like command of the youtube-music extension.           *)
(* SpecErrors   getErrorMessage on the errors the pipeline raises.         *)
(* SpecHistoryList  the tune-history list with Delete Version.             *)
(* SpecQuickLook    getQuickLookPreviewDataUrl of the downloads manager.   *)
(* SpecDownloads    the paginated list of the downloads manager.           *)
(* SpecLabels   syncPlatformLabels of the pull-request labelling script.   *)
(*                                                                         *)
(* A synchronous handler runs against the state of the latest render. The  *)
(* continuation of an asynchronous handler keeps the constants its call    *)
(* captured (currentIndex), while a functional state update (prev => ...)  *)
(* receives the latest state.                                              *)
(***************************************************************************)
EXTENDS Integers, Sequences, FiniteSets, TLC

VARIABLES
    variant,            \* which revision of the command is running
    history,            \* useState<PlaylistVersion[]>
    currentIndex,       \* useState(0)            (part_000, generatePlaylist)
    currentPlaylist,    \* useState<Playlist|null> (part_009)
    historyInitialized, \* useState(false)        (part_000)
    initialError,       \* usePromise(...).error  (part_000, part_009)
    loading,            \* isTuning (part_000, part_009), isLoading (generatePlaylist)
    error,              \* tuneError (part_000, part_009), error (generatePlaylist)
    searchText,         \* useState("")
    tasks,              \* generate / tune requests awaiting their results
    started,            \* number of requests started so far
    evt,                \* the handler or continuation that ran last
    aiTracks,           \* resolveTracksOnSpotify: its argument
    oracle,             \* what searchTracks answers to each query
    pc,                 \* per suggestion: where its async callback stands
    slots,              \* per suggestion: the value its callback returned
    calls,              \* per suggestion: searchTracks calls made so far
    outcome,            \* what resolveTracksOnSpotify returned or threw
    response,           \* parseAiPlaylistResponse(data): the text the AI answered
    twin,               \* the same text written without its trailing comma
    document,           \* the JSON the AI wrote into the text
    jsonString,         \* parseAiPlaylistResponse: let jsonString
    playlist,           \* parseAiPlaylistResponse: let playlist
    ppc,                \* where the parsing of the answer stands
    parseCalls,         \* JSON.parse calls made for this answer: did each succeed
    parsed,             \* what parseAiPlaylistResponse returned or threw
    handed,             \* what the caller passed to resolveTracksOnSpotify
    resolved,           \* currentPlaylist.tracks: the entries the resolver stored
    shown,              \* const tracks: the list displayed, played, queued, saved
    playTracks,         \* const tracks as the two playback actions see it
    handler,            \* the playback action that was taken
    hpc,                \* where that action stands
    loopIndex,          \* let i of the loop of addSongsToQueue, counted from 1
    startedPlayback,    \* let startedPlayback
    inFlight,           \* the addToQueue calls that were started and have not completed
    attempts,           \* calls of play() made by the retry() in progress
    player,             \* what the Spotify player was asked to do, in the order it got it
    toast,              \* the toast that ended the action
    utils,              \* which revision of runJSInYouTubeMusicTab the command imports
    tabOpen,            \* is a tab that matches the url preference open
    jsAllowed,          \* is Allow JavaScript from Apple Events enabled
    likeButton,         \* the like button the page has
    ariaPressed,        \* the aria-pressed attribute of that button
    clicks,             \* per click on the like button, aria-pressed as the click found it
    ypc,                \* where the Like command stands
    osaResult,          \* const result of runAppleScript
    jsOutcome,          \* what runJSInYouTubeMusicTab returned or threw
    hud,                \* the HUD messages shown, one list per run of the command
    failureToast,       \* the failure toasts shown
    invoked,            \* how many times the Like command was invoked
    caught,             \* catch (err): the text of the error, as the set of its fragments
    reported,           \* getErrorMessage(err): the message stored for display
    catches,            \* errors caught so far
    parentHistory,      \* Command: useState<Playlist[]> history (part_009 596)
    parentCurrent,      \* Command: useState<Playlist | null> currentPlaylist (part_009 597)
    setHistoryProp,     \* what the parent passes as the setHistory prop
    viewOpen,           \* is the TuneHistoryList pushed on the navigation stack
    propsHistory,       \* TuneHistoryList: the history prop, which onSelect closes over too
    propsCurrent,       \* TuneHistoryList: the currentPlaylist prop
    localHistory,       \* TuneHistoryList: useState(history)
    deletes,            \* Delete Version actions taken so far
    deleted,            \* the index given to the last handleDelete and the error it let escape
    platform,           \* process.platform
    stage,              \* per call of getQuickLookPreviewDataUrl: not called yet, or called
    tempDir,            \* per call: let tempDir is set
    dirOnDisk,          \* per call: the directory mkdtempSync made exists
    resolvedOnce,       \* per call: let resolved
    resolveCalls,       \* per call: how many times resolve was called
    promise,            \* per call: the state of the promise returned
    timer,              \* per call: the timeout is pending
    child,              \* per call: qlmanage runs and its callback is still to come
    fired,              \* per call: the timeout and the callback, in the order they ran
    folder,             \* the files of the folder, named by their rank in the sort order
    downloads,          \* useState<Download[]>([]) of the paginated list
    isLoading,          \* useState(true)
    hasMore,            \* useState(true)
    nextOffset,         \* useState(0)
    mounted,            \* the effect that loads the first page has run
    prLabels,           \* the labels on the pull request
    labelsMemo,         \* let _labelsMemo: string[] | null = null
    listCalls,          \* calls of listLabelsOnIssue in this run
    syncCalls,          \* calls of syncPlatformLabels in this run
    returned,           \* what the last call of syncPlatformLabels returned
    lastCall            \* the last call: its argument, the labels before it, whether every API call of the run succeeded

cvars == <<variant, history, currentIndex, currentPlaylist, historyInitialized,
           initialError, loading, error, searchText, tasks, started, evt>>
rvars == <<aiTracks, oracle, pc, slots, calls, outcome>>
pvars == <<response, twin, document, jsonString, playlist, ppc, parseCalls, parsed,
           handed>>
dvars == <<resolved, shown>>
svars == <<playTracks, handler, hpc, loopIndex, startedPlayback, inFlight, attempts, player, toast>>
yvars == <<utils, tabOpen, jsAllowed, likeButton, ariaPressed, clicks, ypc, osaResult, jsOutcome, hud, failureToast, invoked>>
evars == <<caught, reported, catches>>
hvars == <<parentHistory, parentCurrent, setHistoryProp, viewOpen, propsHistory, propsCurrent, localHistory, deletes, deleted>>
kvars == <<platform, stage, tempDir, dirOnDisk, resolvedOnce, resolveCalls, promise, timer, child, fired>>
lvars == <<folder, downloads, isLoading, hasMore, nextOffset, mounted>>
gvars == <<prLabels, labelsMemo, listCalls, syncCalls, returned, lastCall>>
vars == <<cvars, rvars, pvars, dvars, svars, yvars, evars, hvars, kvars, lvars, gvars>>

\* what the steps of one part of the program leave alone
beyondCommand == <<rvars, pvars, dvars, svars, yvars, evars, hvars, kvars, lvars, gvars>>
beyondResolve == <<cvars, pvars, dvars, svars, yvars, evars, hvars, kvars, lvars, gvars>>
beyondParse == <<cvars, rvars, dvars, svars, yvars, evars, hvars, kvars, lvars, gvars>>
beyondPlayer == <<cvars, rvars, pvars, dvars, yvars, evars, hvars, kvars, lvars, gvars>>
beyondTracks == <<cvars, rvars, pvars, svars, yvars, evars, hvars, kvars, lvars, gvars>>
beyondErrors == <<cvars, rvars, pvars, dvars, svars, yvars, hvars, kvars, lvars, gvars>>
beyondYouTube == <<cvars, rvars, pvars, dvars, svars, evars, hvars, kvars, lvars, gvars>>
beyondQuickLook == <<cvars, rvars, pvars, dvars, svars, yvars, evars, hvars, lvars, gvars>>
beyondHistoryList == <<cvars, rvars, pvars, dvars, svars, yvars, evars, kvars, lvars, gvars>>
beyondLabels == <<cvars, rvars, pvars, dvars, svars, yvars, evars, hvars, kvars, lvars>>
beyondDownloads == <<cvars, rvars, pvars, dvars, svars, yvars, evars, hvars, kvars, gvars>>

-----------------------------------------------------------------------------
(* Bounds *)

MaxTunes == 3          \* requests started after the initial generation
MaxSuggestions == 2    \* length of the list of suggested tracks
MaxTracks == 1         \* tracks in the JSON of an answer given to the parser
MaxResolved == 3       \* entries of the track list of a version on display
MaxQueue == 3          \* tracks of the list that is played or queued
MaxLikes == 2          \* invocations of the Like command
MaxErrors == 2         \* errors the command catches one after the other
MaxVersions == 3       \* versions in the history when the tune-history list opens
MaxDeletes == 2        \* Delete Version actions
MaxPreviews == 3       \* calls of getQuickLookPreviewDataUrl
MaxFiles == 5          \* files in the folder when the list opens
PAGE_SIZE == 2         \* entries of one page (100 in the source)
MaxSyncs == 2          \* calls of syncPlatformLabels in one run
MaxPlatforms == 2      \* length of the platforms argument

-----------------------------------------------------------------------------
(* Values *)

Variants == {"part_000", "generatePlaylist", "part_009"}

NULL == "null"

\* props.arguments.description
InitialPrompt == "jazz"

\* what the user may type into the search bar
SearchTexts == {" ", "rock"}

\* String.prototype.trim on the texts above
Trim(s) == IF s = " " THEN "" ELSE s

\* String.prototype.toLowerCase on the texts above
ToLowerCase(s) == IF s = "Rock" THEN "rock" ELSE s

\* undefined / null where a playlist version is expected
NoVersion == [ref |-> -1, name |-> "", description |-> "", tracks |-> <<>>, prompt |-> ""]

\* null where an ErrorState is expected
NoError == [message |-> {}, failedPrompt |-> "", isInitialGeneration |-> FALSE]

\* An error message is the set of the fragments its text contains.
Includes(errorString, fragment) == fragment \in errorString

ServiceUnavailable == {"503", "Service Unavailable"}
NoJsonFound == {"No JSON object found"}
FailedToParse == {"Failed to parse AI response"}
SyntaxError == {"Unexpected token"}
ContainsNoSongs == {"contains no songs"}
NoneFound == {"could be found on Spotify"}
TypeError == {"is not a function"}

-----------------------------------------------------------------------------
(* getErrorMessage *)

\* part_000 getErrorMessage
GetErrorMessage000(errorString) ==
    IF Includes(errorString, "503") \/ Includes(errorString, "heroku")
         \/ Includes(errorString, "Service Unavailable")
    THEN {"AI service is temporarily unavailable"}
    ELSE IF Includes(errorString, "Failed to parse AI response")
              \/ Includes(errorString, "No JSON object found")
    THEN {"AI returned an invalid response"}
    ELSE IF Includes(errorString, "rate limit") \/ Includes(errorString, "429")
    THEN {"Too many requests"}
    ELSE IF Includes(errorString, "contains no songs")
              \/ Includes(errorString, "could be found on Spotify")
    THEN {"AI didn't return any valid songs"}
    ELSE errorString

\* generatePlaylist.tsx getErrorMessage: no case for the no-songs errors
GetErrorMessageSpotify(errorString) ==
    IF Includes(errorString, "503") \/ Includes(errorString, "heroku")
         \/ Includes(errorString, "Service Unavailable")
    THEN {"AI service is temporarily unavailable"}
    ELSE IF Includes(errorString, "Failed to parse AI response")
              \/ Includes(errorString, "No JSON object found")
    THEN {"AI returned an invalid response"}
    ELSE IF Includes(errorString, "rate limit") \/ Includes(errorString, "429")
    THEN {"Too many requests"}
    ELSE errorString

\* the message a failed tune stores: part_009 stores err.message as it is
ErrorMessage(v, errorString) ==
    CASE v = "part_000" -> GetErrorMessage000(errorString)
      [] v = "generatePlaylist" -> GetErrorMessageSpotify(errorString)
      [] OTHER -> errorString

-----------------------------------------------------------------------------
(* resolveTracksOnSpotify, as a function of what searchTracks answers *)

SongIds == {1, 2}
Tracks == {"t1", "t2"}
\* response?.items?.[0] of one searchTracks call: a track, no item, or a throw
Answers == {"none", "throw"} \cup Tracks
Oracles == [SongIds -> [strict : Answers, lenient : Answers]]

\* the async callback of aiTracks.map: the value it returns for one song
ResolveSong(v, o, song) ==
    LET strict == o[song].strict
        lenient == o[song].lenient
    IN  IF strict = "throw" THEN NULL
        ELSE IF strict # "none" THEN strict
        ELSE IF v # "part_000" THEN NULL
        ELSE IF lenient = "throw" \/ lenient = "none" THEN NULL
        ELSE lenient

NonNull(tracks) == SelectSeq(tracks, LAMBDA t : t # NULL)

\* what follows Promise.all: the validTracks check and the value returned
CheckResolved(v, tracks) ==
    IF v = "generatePlaylist"
    THEN [threw |-> FALSE, tracks |-> tracks]
    ELSE IF Len(NonNull(tracks)) = 0
    THEN [threw |-> TRUE, tracks |-> <<>>]
    ELSE [threw |-> FALSE,
          tracks |-> IF v = "part_000" THEN tracks ELSE NonNull(tracks)]

ResolveTracksOnSpotify(v, songs, o) ==
    CheckResolved(v, [i \in 1..Len(songs) |-> ResolveSong(v, o, songs[i])])

-----------------------------------------------------------------------------
(* The text AI.ask returns, by what the parser makes of it *)

\* AI.ask throws; no '{...}' span; JSON.parse fails; parsed, with tracks
\* missing, not a list, or a list
AnswerKinds == {"throws", "nojson", "badjson", "missing", "notalist", "list"}

AiAnswer(kind, songs) == [kind |-> kind, name |-> "mix", description |-> "desc",
                          tracks |-> songs]

\* parseAiPlaylistResponse (part_000, generatePlaylist.tsx), and
\* cleanAIResponse followed by JSON.parse (part_009): error thrown, or {}
ParseError(v, data) ==
    IF data.kind = "nojson" THEN NoJsonFound
    ELSE IF data.kind = "badjson"
    THEN (IF v = "part_009" THEN SyntaxError ELSE FailedToParse)
    ELSE IF v = "part_000"
            /\ (data.kind = "missing" \/ data.kind = "notalist" \/ Len(data.tracks) = 0)
    THEN ContainsNoSongs
    ELSE {}

Failed(errorString) == [error |-> errorString, name |-> "", description |-> "",
                        tracks |-> <<>>]

\* AI.ask, the parser and the resolver in sequence: the playlist, or the error thrown
Pipeline(v, data, o) ==
    IF data.kind = "throws" THEN Failed(ServiceUnavailable)
    ELSE IF ParseError(v, data) # {} THEN Failed(ParseError(v, data))
    ELSE IF data.kind # "list" THEN Failed(TypeError)
    ELSE LET r == ResolveTracksOnSpotify(v, data.tracks, o)
         IN  IF r.threw THEN Failed(NoneFound)
             ELSE [error |-> {}, name |-> data.name, description |-> data.description,
                   tracks |-> r.tracks]

\* the answers and the catalogue the command is run against: the AI suggests
\* song 1 (or no song), and a search for song i finds track i or nothing
SuggestedSongs == <<1>>
TrackOf(song) == IF song = 1 THEN "t1" ELSE "t2"
CatalogOracles ==
    {o \in Oracles : \A s \in SongIds :
        /\ o[s].strict \in {"none", "throw", TrackOf(s)}
        /\ o[s].lenient \in {"none", "throw", TrackOf(s)}}
CommandAnswers ==
    {AiAnswer(k, <<>>) : k \in AnswerKinds} \cup {AiAnswer("list", SuggestedSongs)}

PipelineResults ==
    [v \in Variants |-> {Pipeline(v, d, o) : d \in CommandAnswers, o \in CatalogOracles}]

-----------------------------------------------------------------------------
(* The Command component *)

Min(a, b) == IF a < b THEN a ELSE b

\* history[index]: undefined outside the array
At(h, index) == IF index >= 0 /\ index < Len(h) THEN h[index + 1] ELSE NoVersion

\* Array.prototype.indexOf on object references, 0-based, -1 when absent
IndexOf(h, version) ==
    IF \E i \in 1..Len(h) : h[i].ref = version.ref
    THEN (CHOOSE i \in 1..Len(h) :
            /\ h[i].ref = version.ref
            /\ \A j \in 1..(i - 1) : h[j].ref # version.ref) - 1
    ELSE -1

\* const currentIndex: state in part_000 and generatePlaylist.tsx, a memo of
\* history.indexOf(currentPlaylist) in part_009
CurrentIndex ==
    IF variant = "part_009"
    THEN (IF currentPlaylist = NoVersion THEN -1 ELSE IndexOf(history, currentPlaylist))
    ELSE currentIndex

\* const currentPlaylist = history[currentIndex]; state in part_009
CurrentPlaylist ==
    IF variant = "part_009" THEN currentPlaylist
    ELSE At(history, currentIndex)

CanRevertAtFirst == CurrentIndex >= 0

CanRevert == CurrentIndex > 0
CanRedo == CurrentIndex < Len(history) - 1

IsInitialLoading == \E t \in tasks : t.kind = "initial"

\* const isLoading = isInitialLoading || isTuning; state in generatePlaylist.tsx
IsLoading == IF variant = "generatePlaylist" THEN loading ELSE IsInitialLoading \/ loading

\* the handler that ran, the request it belongs to, its argument (the index given
\* to jumpToVersion, the cursor revert / redo found, the index a request
\* captured), and the error it let escape: no handler of the component throws
Event(op, id, arg) == [op |-> op, id |-> id, arg |-> arg, thrown |-> "none"]

InitCommand ==
    /\ variant \in Variants
    /\ history = <<>>
    /\ currentIndex = 0
    /\ currentPlaylist = NoVersion
    /\ historyInitialized = FALSE
    /\ initialError = FALSE
    /\ loading = (variant = "generatePlaylist")
    /\ error = NoError
    /\ searchText = ""
    /\ tasks = {[id |-> 0, kind |-> "initial", prompt |-> InitialPrompt, idx |-> 0]}
    /\ started = 0
    /\ evt = Event("mount", 0, 0)

\* resolveTracksOnSpotify has neither returned nor thrown
Pending == [state |-> "pending", tracks |-> <<>>]

\* the resolver's variables while the command is the system under study
IdleResolver ==
    /\ aiTracks = <<>>
    /\ oracle = [s \in SongIds |-> [strict |-> "none", lenient |-> "none"]]
    /\ pc = <<>>
    /\ slots = <<>>
    /\ calls = <<>>
    /\ outcome = Pending

\* a JavaScript value as JSON.parse builds it: type is "string", "number",
\* "array", "object", "entry" (one key of an object) or "undefined"
Value(type, chars, items) == [type |-> type, chars |-> chars, items |-> items]

Undefined == Value("undefined", <<>>, <<>>)

\* the parsing step: "idle", "running", "returned" or "threw"
Parsed(state, errorString, value) ==
    [state |-> state, error |-> errorString, value |-> value]

\* resolveTracksOnSpotify(aiPlaylist.tracks) has not been reached
NotHanded == [called |-> FALSE, tracks |-> Undefined]

\* parseAiPlaylistResponse has not been called
IdleParse ==
    /\ response = <<>>
    /\ twin = <<>>
    /\ document = <<>>
    /\ jsonString = <<>>
    /\ playlist = Undefined
    /\ ppc = "idle"
    /\ parseCalls = <<>>
    /\ parsed = Parsed("idle", {}, Undefined)
    /\ handed = NotHanded

\* an entry of a version's tracks: a track object of a search response, or null
Track(obj, id) == [obj |-> obj, id |-> id]
NoTrack == Track(0, NULL)

\* the track list has not been rendered
NotShown == [done |-> FALSE, tracks |-> <<>>]

\* no version is on display
IdleTracks ==
    /\ resolved = <<>>
    /\ shown = NotShown

\* a track of the list; uri is NoUri on a track that has none
Song(id, uri) == [id |-> id, uri |-> uri]
NoUri == 0

\* no Play Playlist or Add Songs to Queue action has been taken
IdlePlayer ==
    /\ playTracks = <<>>
    /\ handler = "none"
    /\ hpc = "idle"
    /\ loopIndex = 0
    /\ startedPlayback = FALSE
    /\ inFlight = <<>>
    /\ attempts = 0
    /\ player = <<>>
    /\ toast = "none"

\* runJSInYouTubeMusicTab has neither returned nor thrown
Running == [kind |-> "running", value |-> <<>>]

\* no YouTube Music command has been invoked
IdleYouTube ==
    /\ utils = "utils.ts"
    /\ tabOpen = FALSE
    /\ jsAllowed = FALSE
    /\ likeButton = "none"
    /\ ariaPressed = FALSE
    /\ clicks = <<>>
    /\ ypc = "idle"
    /\ osaResult = <<>>
    /\ jsOutcome = Running
    /\ hud = <<>>
    /\ failureToast = <<>>
    /\ invoked = 0

\* no error has been caught
IdleErrors ==
    /\ caught = {}
    /\ reported = {}
    /\ catches = 0

\* null where a Playlist is expected by the tune-history list
NoPlaylist == 0

\* handleDelete has not run
NotDeleted == [index |-> -1, thrown |-> "none"]

\* the tune-history list has not been opened
IdleHistoryList ==
    /\ parentHistory = <<>>
    /\ parentCurrent = NoPlaylist
    /\ setHistoryProp = "undefined"
    /\ viewOpen = FALSE
    /\ propsHistory = <<>>
    /\ propsCurrent = NoPlaylist
    /\ localHistory = <<>>
    /\ deletes = 0
    /\ deleted = NotDeleted

\* getQuickLookPreviewDataUrl has not been called
IdleQuickLook ==
    /\ platform = "darwin"
    /\ stage = <<>>
    /\ tempDir = <<>>
    /\ dirOnDisk = <<>>
    /\ resolvedOnce = <<>>
    /\ resolveCalls = <<>>
    /\ promise = <<>>
    /\ timer = <<>>
    /\ child = <<>>
    /\ fired = <<>>

IdleDownloads ==
    /\ folder = {}
    /\ downloads = <<>>
    /\ isLoading = FALSE
    /\ hasMore = FALSE
    /\ nextOffset = 0
    /\ mounted = FALSE

IdleLabels ==
    /\ prLabels = {}
    /\ labelsMemo = [isNull |-> TRUE, names |-> <<>>]
    /\ listCalls = 0
    /\ syncCalls = 0
    /\ returned = <<>>
    /\ lastCall = [given |-> FALSE, platforms |-> <<>>, before |-> {}, succeeded |-> TRUE]

Init == InitCommand /\ IdleResolver /\ IdleParse /\ IdleTracks /\ IdlePlayer /\ IdleYouTube /\ IdleErrors /\ IdleHistoryList /\ IdleQuickLook /\ IdleDownloads /\ IdleLabels

\* onSearchTextChange={setSearchText}
SetSearchText(text) ==
    /\ searchText' = text
    /\ evt' = Event("type", 0, 0)
    /\ UNCHANGED <<variant, history, currentIndex, currentPlaylist, historyInitialized,
                   initialError, loading, error, tasks, started>>
    /\ UNCHANGED beyondCommand

\* setIsTuning(true) / setIsLoading(true); setError(null); the awaited request
StartRequest(kind, prompt) ==
    /\ started < MaxTunes
    /\ tasks' = tasks \cup {[id |-> started + 1, kind |-> kind, prompt |-> prompt,
                             idx |-> currentIndex]}
    /\ started' = started + 1
    /\ loading' = TRUE
    /\ error' = NoError
    /\ evt' = Event(kind, started + 1, currentIndex)
    /\ UNCHANGED <<variant, history, currentIndex, currentPlaylist, historyInitialized,
                   initialError, searchText>>
    /\ UNCHANGED beyondCommand

Ignored(op) ==
    /\ evt' = Event(op, 0, 0)
    /\ UNCHANGED <<variant, history, currentIndex, currentPlaylist, historyInitialized,
                   initialError, loading, error, searchText, tasks, started>>
    /\ UNCHANGED beyondCommand

\* the early returns of tunePlaylist
TuneGuard(prompt) ==
    /\ Trim(prompt) # ""
    /\ CurrentPlaylist # NoVersion
    /\ variant = "part_009" =>
         ToLowerCase(Trim(prompt)) # ToLowerCase(Trim(CurrentPlaylist.prompt))

\* tunePlaylist(prompt), up to its first await
TunePlaylist(prompt) ==
    IF Trim(prompt) = "" THEN Ignored("tuneIgnored")
    ELSE IF variant = "generatePlaylist" /\ error.isInitialGeneration
    THEN StartRequest("retry", prompt)
    ELSE IF TuneGuard(prompt) THEN StartRequest("tune", prompt)
    ELSE Ignored("tuneIgnored")

\* <Action title="Tune with Prompt" onAction={() => tunePlaylist(searchText)} />
TuneWithPrompt == TunePlaylist(searchText)

\* const promptToUse = searchText.trim() || error.failedPrompt
PromptToUse == IF Trim(searchText) # "" THEN Trim(searchText) ELSE error.failedPrompt

\* <Action title="Retry" ...> of the tuning error state
Retry ==
    /\ error # NoError
    /\ ~IsLoading
    /\ IF variant = "generatePlaylist" /\ error.isInitialGeneration
       THEN StartRequest("retry", PromptToUse)
       ELSE TunePlaylist(PromptToUse)

\* <Action title="Retry" onAction={() => revalidate()} /> of the initial error state
RetryInitial ==
    /\ variant # "generatePlaylist"
    /\ initialError
    /\ ~IsLoading
    /\ started < MaxTunes
    /\ tasks' = tasks \cup {[id |-> started + 1, kind |-> "initial",
                             prompt |-> InitialPrompt, idx |-> 0]}
    /\ started' = started + 1
    /\ evt' = Event("initial", started + 1, 0)
    /\ UNCHANGED <<variant, history, currentIndex, currentPlaylist, historyInitialized,
                   initialError, loading, error, searchText>>
    /\ UNCHANGED beyondCommand

\* <Action title="Keep Previous" onAction={() => setTuneError(null)} />
KeepPrevious ==
    /\ error # NoError
    /\ ~IsLoading
    /\ variant = "generatePlaylist" => Len(history) > 0 /\ ~error.isInitialGeneration
    /\ error' = NoError
    /\ evt' = Event("keep", 0, 0)
    /\ UNCHANGED <<variant, history, currentIndex, currentPlaylist, historyInitialized,
                   initialError, loading, searchText, tasks, started>>
    /\ UNCHANGED beyondCommand

\* setCurrentIndex / setCurrentPlaylist(history[index])
MoveCursor(index) ==
    IF variant = "part_009"
    THEN currentPlaylist' = At(history, index) /\ UNCHANGED currentIndex
    ELSE currentIndex' = index /\ UNCHANGED currentPlaylist

\* setCurrentIndex((prev) => prev - 1)
RevertTarget == CurrentIndex - 1

\* setCurrentIndex((prev) => prev + 1)
RedoTarget == CurrentIndex + 1

RevertToPrevious ==
    /\ evt' = Event("revert", 0, CurrentIndex)
    /\ IF CanRevert
       THEN /\ MoveCursor(RevertTarget)
            /\ error' = IF variant = "part_009" THEN error ELSE NoError
       ELSE UNCHANGED <<currentIndex, currentPlaylist, error>>
    /\ UNCHANGED <<variant, history, historyInitialized, initialError, loading,
                   searchText, tasks, started>>
    /\ UNCHANGED beyondCommand

RedoNext ==
    /\ evt' = Event("redo", 0, CurrentIndex)
    /\ IF CanRedo
       THEN MoveCursor(RedoTarget) /\ error' = NoError
       ELSE UNCHANGED <<currentIndex, currentPlaylist, error>>
    /\ UNCHANGED <<variant, history, historyInitialized, initialError, loading,
                   searchText, tasks, started>>
    /\ UNCHANGED beyondCommand

\* if (index >= 0 && index < history.length)
ValidIndexInclusive(index) == index >= 0 /\ index <= Len(history)

ValidIndex(index) == index >= 0 /\ index < Len(history)

JumpToVersion(index) ==
    /\ evt' = Event("jump", 0, index)
    /\ IF ValidIndex(index)
       THEN MoveCursor(index) /\ error' = NoError
       ELSE UNCHANGED <<currentIndex, currentPlaylist, error>>
    /\ UNCHANGED <<variant, history, historyInitialized, initialError, loading,
                   searchText, tasks, started>>
    /\ UNCHANGED beyondCommand

\* the object a request builds from the pipeline's result and its own prompt
NewVersion(t, r) == [ref |-> t.id, name |-> r.name, description |-> r.description,
                     tracks |-> r.tracks, prompt |-> t.prompt]

\* Array.prototype.slice(0, end)
Slice(prev, end) == SubSeq(prev, 1, Min(end, Len(prev)))

\* setHistory((prev) => [...prev.slice(0, currentIndex + 1), newVersion]), with the
\* currentIndex the call captured; part_009: [...prevHistory, playlist]
HistoryAfterTune(v, prev, idx, newVersion) ==
    IF v = "part_009" THEN Append(prev, newVersion)
    ELSE Append(Slice(prev, idx + 1), newVersion)

\* setCurrentIndex((prev) => prev + 1)
IndexAfterTune(prev) == prev + 1

\* setError({ message, failedPrompt, isInitialGeneration })
ErrorState(v, t, r) ==
    [message |-> ErrorMessage(v, r.error), failedPrompt |-> t.prompt,
     isInitialGeneration |-> (v = "generatePlaylist" /\ t.kind # "tune")]

\* the rest of tunePlaylist once the request succeeded, finally block included
TuneSucceeds(t, r) ==
    /\ history' = HistoryAfterTune(variant, history, t.idx, NewVersion(t, r))
    /\ IF variant = "part_009"
       THEN /\ currentPlaylist' = NewVersion(t, r)
            /\ UNCHANGED <<currentIndex, searchText, error>>
       ELSE /\ currentIndex' = IndexAfterTune(currentIndex)
            /\ searchText' = ""
            /\ error' = NoError
            /\ UNCHANGED currentPlaylist
    /\ loading' = FALSE
    /\ evt' = Event("tuneOk", t.id, t.idx)
    /\ UNCHANGED <<historyInitialized, initialError>>

\* the catch and finally blocks of tunePlaylist and of retryWithPrompt
RequestFails(t, r) ==
    /\ error' = ErrorState(variant, t, r)
    /\ searchText' = t.prompt
    /\ loading' = FALSE
    /\ evt' = Event(IF t.kind = "tune" THEN "tuneFail" ELSE "generateFail", t.id, t.idx)
    /\ UNCHANGED <<history, currentIndex, currentPlaylist, historyInitialized, initialError>>

\* generateInitialPlaylist / retryWithPrompt of generatePlaylist.tsx succeed
GenerateSucceeds(t, r) ==
    /\ history' = <<NewVersion(t, r)>>
    /\ currentIndex' = 0
    /\ searchText' = IF t.kind = "retry" THEN "" ELSE searchText
    /\ error' = NoError
    /\ loading' = FALSE
    /\ evt' = Event("generateOk", t.id, t.idx)
    /\ UNCHANGED <<currentPlaylist, historyInitialized, initialError>>

\* usePromise resolves and the effect that seeds the history runs
InitialSucceeds(t, r) ==
    /\ IF variant = "part_009"
       THEN /\ history' = <<NewVersion(t, r)>>
            /\ currentPlaylist' = NewVersion(t, r)
            /\ UNCHANGED <<currentIndex, historyInitialized>>
       ELSE IF ~historyInitialized
       THEN /\ history' = <<NewVersion(t, r)>>
            /\ currentIndex' = 0
            /\ historyInitialized' = TRUE
            /\ UNCHANGED currentPlaylist
       ELSE UNCHANGED <<history, currentIndex, currentPlaylist, historyInitialized>>
    /\ initialError' = FALSE
    /\ evt' = Event("generateOk", t.id, t.idx)
    /\ UNCHANGED <<loading, error, searchText>>

\* usePromise rejects: onError shows a toast
InitialFails(t) ==
    /\ initialError' = TRUE
    /\ evt' = Event("generateFail", t.id, t.idx)
    /\ UNCHANGED <<history, currentIndex, currentPlaylist, historyInitialized, loading,
                   error, searchText>>

\* the continuation of a request once AI.ask, the parser and the resolver are done
Settle(t, r) ==
    /\ t \in tasks
    /\ r \in PipelineResults[variant]
    /\ tasks' = tasks \ {t}
    /\ UNCHANGED <<variant, started>>
    /\ IF t.kind = "tune"
       THEN (IF r.error = {} THEN TuneSucceeds(t, r) ELSE RequestFails(t, r))
       ELSE IF variant = "generatePlaylist"
       THEN (IF r.error = {} THEN GenerateSucceeds(t, r) ELSE RequestFails(t, r))
       ELSE (IF r.error = {} THEN InitialSucceeds(t, r) ELSE InitialFails(t))
    /\ UNCHANGED beyondCommand

NextCommand ==
    \/ \E text \in SearchTexts \cup {""} : SetSearchText(text)
    \/ TuneWithPrompt
    \/ Retry
    \/ RetryInitial
    \/ KeepPrevious
    \/ RevertToPrevious
    \/ RedoNext
    \/ \E index \in -1..Len(history) : JumpToVersion(index)
    \/ \E t \in tasks : \E r \in PipelineResults[variant] : Settle(t, r)

Next == NextCommand

Spec == Init /\ [][Next]_vars

-----------------------------------------------------------------------------
(* resolveTracksOnSpotify as concurrent tasks: aiTracks.map starts one async   *)
(* callback per song, each awaits its searchTracks calls, Promise.all joins.   *)

SongLists == UNION {[1..n -> SongIds] : n \in 0..MaxSuggestions}

\* the command's variables while the resolver is the system under study
IdleCommand ==
    /\ history = <<>>
    /\ currentIndex = 0
    /\ currentPlaylist = NoVersion
    /\ historyInitialized = FALSE
    /\ initialError = FALSE
    /\ loading = TRUE
    /\ error = NoError
    /\ searchText = ""
    /\ tasks = {}
    /\ started = 0
    /\ evt = Event("resolve", 0, 0)

InitResolve ==
    /\ variant \in Variants
    /\ aiTracks \in SongLists
    /\ oracle \in Oracles
    /\ pc = [i \in 1..Len(aiTracks) |-> "strict"]
    /\ slots = [i \in 1..Len(aiTracks) |-> "pending"]
    /\ calls = [i \in 1..Len(aiTracks) |-> 0]
    /\ outcome = Pending
    /\ IdleCommand
    /\ IdleParse
    /\ IdleTracks
    /\ IdlePlayer
    /\ IdleYouTube
    /\ IdleErrors
    /\ IdleHistoryList
    /\ IdleQuickLook
    /\ IdleDownloads
    /\ IdleLabels

\* where the callback goes after the strict search answered: the value it
\* returns, or "pending" while the lenient search is still to come
AfterStrictRetriesOnThrow(v, answer) ==
    IF answer \in Tracks THEN answer
    ELSE IF v = "part_000" THEN "pending" ELSE NULL

AfterStrict(v, answer) ==
    IF answer = "throw" THEN NULL
    ELSE IF answer # "none" THEN answer
    ELSE IF v = "part_000" THEN "pending"
    ELSE NULL

\* the value the callback returns after the lenient search answered
AfterLenient(answer) ==
    IF answer = "throw" \/ answer = "none" THEN NULL ELSE answer

\* await searchTracks(`track:${song.title} artist:${song.artist}`, 1)
SearchStrict(i) ==
    /\ pc[i] = "strict"
    /\ calls' = [calls EXCEPT ![i] = @ + 1]
    /\ slots' = [slots EXCEPT ![i] = AfterStrict(variant, oracle[aiTracks[i]].strict)]
    /\ pc' = [pc EXCEPT ![i] = IF slots'[i] = "pending" THEN "lenient" ELSE "done"]
    /\ UNCHANGED <<aiTracks, oracle, outcome>>
    /\ UNCHANGED beyondResolve

\* await searchTracks(`${song.title} ${song.artist}`, 1)
SearchLenient(i) ==
    /\ pc[i] = "lenient"
    /\ calls' = [calls EXCEPT ![i] = @ + 1]
    /\ slots' = [slots EXCEPT ![i] = AfterLenient(oracle[aiTracks[i]].lenient)]
    /\ pc' = [pc EXCEPT ![i] = "done"]
    /\ UNCHANGED <<aiTracks, oracle, outcome>>
    /\ UNCHANGED beyondResolve

AnyCallbackReturned == \E i \in 1..Len(aiTracks) : pc[i] = "done"

\* await Promise.all(...): every callback of aiTracks.map has returned
AllCallbacksReturned == \A i \in 1..Len(aiTracks) : pc[i] = "done"

\* Promise.all resolves once every callback returned; the check that follows
Join ==
    /\ outcome = Pending
    /\ AllCallbacksReturned
    /\ outcome' = [state |-> IF CheckResolved(variant, slots).threw
                             THEN "threw" ELSE "returned",
                   tracks |-> CheckResolved(variant, slots).tracks]
    /\ UNCHANGED <<aiTracks, oracle, pc, slots, calls>>
    /\ UNCHANGED beyondResolve

NextResolve ==
    \/ \E i \in 1..Len(aiTracks) : SearchStrict(i)
    \/ \E i \in 1..Len(aiTracks) : SearchLenient(i)
    \/ Join

SpecResolve == InitResolve /\ [][NextResolve]_vars

-----------------------------------------------------------------------------
(* The text the AI answers. A character is a string; a run of letters such  *)
(* as tracks counts as one character, and so do the three backticks of a    *)
(* code fence, because no pattern of the parser looks inside them.          *)

Quote == "\""
\* the three backticks that open or close a code block
Fence == "FENCE"

RECURSIVE SkipWs(_, _)
\* \s* from position i: the first position that holds no whitespace
SkipWs(s, i) == IF i <= Len(s) /\ s[i] = " " THEN SkipWs(s, i + 1) ELSE i

RECURSIVE IndexFrom(_, _, _)
\* s.indexOf(c, i), 1-based, 0 when c does not occur
IndexFrom(s, c, i) ==
    IF i > Len(s) THEN 0
    ELSE IF s[i] = c THEN i
    ELSE IndexFrom(s, c, i + 1)

RECURSIVE LastIndexOf(_, _, _)
\* s.lastIndexOf(c, i), 1-based, 0 when c does not occur
LastIndexOf(s, c, i) ==
    IF i < 1 THEN 0
    ELSE IF s[i] = c THEN i
    ELSE LastIndexOf(s, c, i - 1)

\* what a step of JSON.parse gives: a value and the position after it
Fail == [ok |-> FALSE, val |-> Undefined, pos |-> 0]
Ok(val, pos) == [ok |-> TRUE, val |-> val, pos |-> pos]

\* a JSON string starting at the quote s[i]
ParseString(s, i) ==
    LET j == IndexFrom(s, Quote, i + 1)
    IN  IF j = 0 THEN Fail
        ELSE Ok(Value("string", SubSeq(s, i + 1, j - 1), <<>>), j + 1)

RECURSIVE ParseValue(_, _)
RECURSIVE ParseElements(_, _, _)
RECURSIVE ParseMembers(_, _, _)

\* a JSON value starting at or after position i0
ParseValue(s, i0) ==
    LET i == SkipWs(s, i0)
    IN  IF i > Len(s) THEN Fail
        ELSE IF s[i] = Quote THEN ParseString(s, i)
        ELSE IF s[i] = "[" THEN
            LET j == SkipWs(s, i + 1)
            IN  IF j <= Len(s) /\ s[j] = "]"
                THEN Ok(Value("array", <<>>, <<>>), j + 1)
                ELSE ParseElements(s, i + 1, <<>>)
        ELSE IF s[i] = "{" THEN
            LET j == SkipWs(s, i + 1)
            IN  IF j <= Len(s) /\ s[j] = "}"
                THEN Ok(Value("object", <<>>, <<>>), j + 1)
                ELSE ParseMembers(s, i + 1, <<>>)
        ELSE Fail

\* the elements of an array, from position i to its closing bracket
ParseElements(s, i, items) ==
    LET v == ParseValue(s, i)
        j == SkipWs(s, v.pos)
    IN  IF ~v.ok \/ j > Len(s) THEN Fail
        ELSE IF s[j] = "," THEN ParseElements(s, j + 1, Append(items, v.val))
        ELSE IF s[j] = "]" THEN Ok(Value("array", <<>>, Append(items, v.val)), j + 1)
        ELSE Fail

\* the members of an object, from position i to its closing brace
ParseMembers(s, i, entries) ==
    LET k == SkipWs(s, i)
        key == ParseString(s, k)
        c == SkipWs(s, key.pos)
        v == ParseValue(s, c + 1)
        j == SkipWs(s, v.pos)
        entry == Value("entry", key.val.chars, <<v.val>>)
    IN  IF k > Len(s) \/ s[k] # Quote \/ ~key.ok THEN Fail
        ELSE IF c > Len(s) \/ s[c] # ":" THEN Fail
        ELSE IF ~v.ok \/ j > Len(s) THEN Fail
        ELSE IF s[j] = "," THEN ParseMembers(s, j + 1, Append(entries, entry))
        ELSE IF s[j] = "}" THEN Ok(Value("object", <<>>, Append(entries, entry)), j + 1)
        ELSE Fail

\* JSON.parse(s): the whole text is one value, whitespace around it allowed
JsonParse(s) ==
    LET r == ParseValue(s, 1)
    IN  IF r.ok /\ SkipWs(s, r.pos) = Len(s) + 1 THEN r ELSE Fail

RECURSIVE Get(_, _, _)
\* object[key] looking at the first n members: the last member of that name wins
Get(object, key, n) ==
    IF object.type # "object" \/ n = 0 THEN Undefined
    ELSE IF object.items[n].chars = key THEN object.items[n].items[1]
    ELSE Get(object, key, n - 1)

\* playlist.tracks
TracksOf(value) == Get(value, <<"tracks">>, Len(value.items))

RECURSIVE TrimStart(_)
TrimStart(s) == IF Len(s) > 0 /\ s[1] = " " THEN TrimStart(Tail(s)) ELSE s

RECURSIVE TrimEnd(_)
TrimEnd(s) ==
    IF Len(s) > 0 /\ s[Len(s)] = " " THEN TrimEnd(SubSeq(s, 1, Len(s) - 1)) ELSE s

\* String.prototype.trim
TrimText(s) == TrimEnd(TrimStart(s))

\* data.match(/```(?:json)?\s*([\s\S]*?)```/): [matched, codeBlockMatch[1]]
CodeBlockMatch(s) ==
    LET i == IndexFrom(s, Fence, 1)
        j == IndexFrom(s, Fence, i + 1)
        afterTag == IF s[i + 1] = "json" THEN i + 2 ELSE i + 1
        start == SkipWs(SubSeq(s, 1, j - 1), afterTag)
    IN  IF i = 0 \/ j = 0 THEN [matched |-> FALSE, group |-> <<>>]
        ELSE [matched |-> TRUE, group |-> SubSeq(s, start, j - 1)]

\* jsonString.match(/\{[\s\S]*\}/): from the first "{" to the last "}"
JsonMatch(s) ==
    LET i == IndexFrom(s, "{", 1)
        j == LastIndexOf(s, "}", Len(s))
    IN  IF i = 0 \/ j < i THEN [matched |-> FALSE, group |-> <<>>]
        ELSE [matched |-> TRUE, group |-> SubSeq(s, i, j)]

RECURSIVE ReplaceCommasNextToCloser(_, _)
ReplaceCommasNextToCloser(s, i) ==
    IF i > Len(s) THEN <<>>
    ELSE IF s[i] = "," /\ i < Len(s) /\ s[i + 1] \in {"}", "]"}
         THEN <<s[i + 1]>> \o ReplaceCommasNextToCloser(s, i + 2)
         ELSE <<s[i]>> \o ReplaceCommasNextToCloser(s, i + 1)

RECURSIVE ReplaceTrailingCommas(_, _)
\* jsonString.replace(/,\s*([}\]])/g, "$1") from position i on
ReplaceTrailingCommas(s, i) ==
    IF i > Len(s) THEN <<>>
    ELSE LET j == SkipWs(s, i + 1)
         IN  IF s[i] = "," /\ j <= Len(s) /\ s[j] \in {"}", "]"}
             THEN <<s[j]>> \o ReplaceTrailingCommas(s, j + 1)
             ELSE <<s[i]>> \o ReplaceTrailingCommas(s, i + 1)

RECURSIVE EndIndex(_, _, _)
\* the brace-counting loop: endIndex, 0-based exclusive as substring takes it
EndIndex(s, i, braceCount) ==
    IF i > Len(s) THEN Len(s)
    ELSE IF s[i] = "{" THEN EndIndex(s, i + 1, braceCount + 1)
    ELSE IF s[i] = "}" THEN
        IF braceCount - 1 = 0 THEN i ELSE EndIndex(s, i + 1, braceCount - 1)
    ELSE EndIndex(s, i + 1, braceCount)

\* jsonString.substring(0, endIndex)
CutAtBraceEnd(s) == SubSeq(s, 1, EndIndex(s, 1, 0))

-----------------------------------------------------------------------------
(* The answers the parser is run on *)

\* what a string value of the JSON holds
Contents == {<<"x">>, <<"x", ",", "}">>, <<"x", "}">>, <<"{">>}

Str(chars) == <<Quote>> \o chars \o <<Quote>>

\* {"title":"..."}
TrackText(title) ==
    <<"{">> \o Str(<<"title">>) \o <<":">> \o Str(title) \o <<"}">>

RECURSIVE ItemsText(_, _)
\* the tracks from the i-th on, separated by commas
ItemsText(titles, i) ==
    IF i > Len(titles) THEN <<>>
    ELSE IF i = Len(titles) THEN TrackText(titles[i])
    ELSE TrackText(titles[i]) \o <<",">> \o ItemsText(titles, i + 1)

ListText(titles) == <<"[">> \o ItemsText(titles, 1) \o <<"]">>

TitleLists == UNION {[1..n -> Contents] : n \in 0..MaxTracks}

\* {"name":"x"} and {"name":"x","tracks":...}
NameText == Str(<<"name">>) \o <<":">> \o Str(<<"x">>)
PlaylistText(tracksText) ==
    <<"{">> \o NameText \o <<",">> \o Str(<<"tracks">>) \o <<":">> \o tracksText \o <<"}">>

\* playlists with a list of tracks, with tracks that is no list, without tracks
ListDocuments == {PlaylistText(ListText(titles)) : titles \in TitleLists}
Documents ==
    ListDocuments \cup {PlaylistText(Str(<<"x">>)), <<"{">> \o NameText \o <<"}">>}

\* the closing braces and brackets of the JSON that are not inside a string
Quotes(s, p) == Cardinality({i \in 1..(p - 1) : s[i] = Quote})
Closers(s) == {p \in 1..Len(s) : s[p] \in {"}", "]"} /\ Quotes(s, p) % 2 = 0}

\* the JSON with a trailing comma, and whitespace or not, before the closer at p
Gaps == {<<>>, <<" ">>}
WithTrailingComma(s, p, gap) ==
    SubSeq(s, 1, p - 1) \o <<",">> \o gap \o SubSeq(s, p, Len(s))
TrailingCommaTexts(s) ==
    {s} \cup {WithTrailingComma(s, p, gap) : p \in Closers(s), gap \in Gaps}

\* how the AI presents the JSON: bare, in a code block, in a json code block
Wrappers == {"bare", "block", "jsonblock"}
Wrap(wrapper, json) ==
    CASE wrapper = "block" -> <<"x", " ", Fence>> \o json \o <<Fence>>
      [] wrapper = "jsonblock" -> <<Fence, "json", " ">> \o json \o <<" ", Fence>>
      [] OTHER -> json

\* what the AI writes after the JSON
Proses == {<<>>, <<" ", "x">>, <<" ", "x", "}">>, <<" ", "{", "x", "}">>}

\* answers that hold no JSON object
RawTexts == {<<>>, <<"x">>, <<"}", "{">>, <<"{", "x", "}">>, <<"{", "{", "}">>}

-----------------------------------------------------------------------------
(* parseAiPlaylistResponse (cleanAIResponse and JSON.parse in part_009) and  *)
(* the call of resolveTracksOnSpotify that follows it                        *)

\* the text inside the first code block, or the whole answer
BlockOrAll(s) ==
    IF CodeBlockMatch(s).matched THEN TrimText(CodeBlockMatch(s).group) ELSE s

\* !playlist.tracks || !Array.isArray(playlist.tracks) || playlist.tracks.length === 0
HasNoSongs(value) ==
    TracksOf(value).type # "array" \/ Len(TracksOf(value).items) = 0

\* part_000 validates what it parsed, the other revisions return it as it is
Checked(v, value) ==
    IF v = "part_000" /\ HasNoSongs(value)
    THEN Parsed("threw", ContainsNoSongs, Undefined)
    ELSE Parsed("returned", {}, value)

\* the function as a whole: what it returns or throws for an answer
ParseAiPlaylistResponse(v, s) ==
    LET m == JsonMatch(BlockOrAll(s))
        first == ReplaceTrailingCommas(m.group, 1)
        second == CutAtBraceEnd(first)
    IN  IF ~m.matched THEN Parsed("threw", NoJsonFound, Undefined)
        ELSE IF JsonParse(first).ok THEN Checked(v, JsonParse(first).val)
        ELSE IF v = "part_009" THEN Parsed("threw", SyntaxError, Undefined)
        ELSE IF JsonParse(second).ok THEN Checked(v, JsonParse(second).val)
        ELSE Parsed("threw", FailedToParse, Undefined)

InitParse ==
    /\ variant \in Variants
    /\ \/ \E json \in Documents, wrapper \in Wrappers, prose \in Proses :
            /\ document = json
            /\ twin = Wrap(wrapper, json) \o prose
            /\ \E withComma \in TrailingCommaTexts(json) :
                   response = Wrap(wrapper, withComma) \o prose
       \/ /\ response \in RawTexts
          /\ twin = response
          /\ document = <<>>
    /\ jsonString = response
    /\ playlist = Undefined
    /\ ppc = "match"
    /\ parseCalls = <<>>
    /\ parsed = Parsed("running", {}, Undefined)
    /\ handed = NotHanded
    /\ IdleCommand
    /\ IdleResolver
    /\ IdleTracks
    /\ IdlePlayer
    /\ IdleYouTube
    /\ IdleErrors
    /\ IdleHistoryList
    /\ IdleQuickLook
    /\ IdleDownloads
    /\ IdleLabels

\* the function throws
Throw(errorString) ==
    /\ parsed' = Parsed("threw", errorString, Undefined)
    /\ ppc' = "done"

\* the two matches: the code block, then the span from "{" to "}"
MatchJson ==
    /\ ppc = "match"
    /\ LET m == JsonMatch(BlockOrAll(response))
       IN  IF m.matched
           THEN jsonString' = m.group /\ ppc' = "clean" /\ UNCHANGED parsed
           ELSE jsonString' = BlockOrAll(response) /\ Throw(NoJsonFound)
    /\ UNCHANGED <<response, twin, document, playlist, parseCalls, handed>>
    /\ UNCHANGED beyondParse

\* jsonString = jsonString.replace(/,\s*([}\]])/g, "$1")
FixTrailingCommas ==
    /\ ppc = "clean"
    /\ jsonString' = ReplaceTrailingCommas(jsonString, 1)
    /\ ppc' = "parse"
    /\ UNCHANGED <<response, twin, document, playlist, parseCalls, parsed, handed>>
    /\ UNCHANGED beyondParse

AfterParseRetries(v) == "retry"

\* where the function goes once a JSON.parse succeeded
AfterParse(v) == IF v = "part_000" THEN "validate" ELSE "return"

\* where it goes when the first JSON.parse threw
AfterFirstFailure(v) == IF v = "part_009" THEN "done" ELSE "retry"

\* the first JSON.parse
FirstParse ==
    /\ ppc = "parse"
    /\ parseCalls' = Append(parseCalls, JsonParse(jsonString).ok)
    /\ IF JsonParse(jsonString).ok
       THEN /\ playlist' = JsonParse(jsonString).val
            /\ ppc' = AfterParse(variant)
            /\ UNCHANGED parsed
       ELSE /\ UNCHANGED playlist
            /\ IF AfterFirstFailure(variant) = "done"
               THEN Throw(SyntaxError)
               ELSE ppc' = "retry" /\ UNCHANGED parsed
    /\ UNCHANGED <<response, twin, document, jsonString, handed>>
    /\ UNCHANGED beyondParse

\* the catch block: cut where the brace count returns to zero, parse again
SecondParse ==
    /\ ppc = "retry"
    /\ jsonString' = CutAtBraceEnd(jsonString)
    /\ parseCalls' = Append(parseCalls, JsonParse(jsonString').ok)
    /\ IF JsonParse(jsonString').ok
       THEN /\ playlist' = JsonParse(jsonString').val
            /\ ppc' = AfterParse(variant)
            /\ UNCHANGED parsed
       ELSE /\ UNCHANGED playlist
            /\ Throw(FailedToParse)
    /\ UNCHANGED <<response, twin, document, handed>>
    /\ UNCHANGED beyondParse

\* part_000: validate that the playlist has tracks, then return it
Validate ==
    /\ ppc = "validate"
    /\ parsed' = Checked(variant, playlist)
    /\ ppc' = IF parsed'.state = "threw" THEN "done" ELSE "resolve"
    /\ UNCHANGED <<response, twin, document, jsonString, playlist, parseCalls, handed>>
    /\ UNCHANGED beyondParse

\* the other revisions: return what JSON.parse gave
ReturnParsed ==
    /\ ppc = "return"
    /\ parsed' = Checked(variant, playlist)
    /\ ppc' = "resolve"
    /\ UNCHANGED <<response, twin, document, jsonString, playlist, parseCalls, handed>>
    /\ UNCHANGED beyondParse

\* the caller: resolveTracksOnSpotify(aiPlaylist.tracks)
HandToResolver ==
    /\ ppc = "resolve"
    /\ handed' = [called |-> TRUE, tracks |-> TracksOf(parsed.value)]
    /\ ppc' = "done"
    /\ UNCHANGED <<response, twin, document, jsonString, playlist, parseCalls, parsed>>
    /\ UNCHANGED beyondParse

NextParse ==
    \/ MatchJson
    \/ FixTrailingCommas
    \/ FirstParse
    \/ SecondParse
    \/ Validate
    \/ ReturnParsed
    \/ HandToResolver

SpecParse == InitParse /\ [][NextParse]_vars

-----------------------------------------------------------------------------
(* const tracks: the track list of the current version as the command        *)
(* displays, plays, queues and saves it                                      *)

\* what the resolver stored: every search call answers with an object of its
\* own, so the entry at position i is object i, whatever track it describes
ResolvedLists ==
    {[i \in 1..Len(ids) |-> IF ids[i] = NULL THEN NoTrack ELSE Track(i, ids[i])] :
         ids \in UNION {[1..n -> Tracks \cup {NULL}] : n \in 0..MaxResolved}}

RECURSIVE FindIndex(_, _, _)
\* arr.findIndex((t) => t?.id === id) from position i on, 0 when none
FindIndex(arr, id, i) ==
    IF i > Len(arr) THEN 0
    ELSE IF arr[i] # NoTrack /\ arr[i].id = id THEN i
    ELSE FindIndex(arr, id, i + 1)

RECURSIVE FilterById(_, _)
\* arr.filter((track, index, arr) => track && arr.findIndex(...) === index)
FilterById(arr, index) ==
    IF index > Len(arr) THEN <<>>
    ELSE IF arr[index] # NoTrack /\ FindIndex(arr, arr[index].id, 1) = index
         THEN <<arr[index]>> \o FilterById(arr, index + 1)
         ELSE FilterById(arr, index + 1)

RECURSIVE SpreadOfSet(_, _)
\* [...new Set(arr)]: a value is kept where it occurs first; objects are the
\* same value only when they are the same object
SpreadOfSet(arr, index) ==
    IF index > Len(arr) THEN <<>>
    ELSE IF \E k \in 1..(index - 1) : arr[k] = arr[index]
         THEN SpreadOfSet(arr, index + 1)
         ELSE <<arr[index]>> \o SpreadOfSet(arr, index + 1)

\* const tracks = ...
DisplayedTracks(v, arr) ==
    CASE v = "part_000" -> FilterById(arr, 1)
      [] v = "generatePlaylist" -> SpreadOfSet(arr, 1)
      [] OTHER -> arr

InitTracks ==
    /\ variant \in Variants
    /\ resolved \in ResolvedLists
    /\ shown = NotShown
    /\ IdleCommand
    /\ IdleResolver
    /\ IdleParse
    /\ IdlePlayer
    /\ IdleYouTube
    /\ IdleErrors
    /\ IdleHistoryList
    /\ IdleQuickLook
    /\ IdleDownloads
    /\ IdleLabels

\* the component renders
Render ==
    /\ ~shown.done
    /\ shown' = [done |-> TRUE, tracks |-> DisplayedTracks(variant, resolved)]
    /\ UNCHANGED resolved
    /\ UNCHANGED beyondTracks

NextTracks == Render

SpecTracks == InitTracks /\ [][NextTracks]_vars

-----------------------------------------------------------------------------
(* Play Playlist and Add Songs to Queue                                      *)
(*                                                                           *)
(* Both actions work on const tracks, the list on display. A step of the     *)
(* model is the code between two awaits that involve the Spotify player:     *)
(* an addToQueue call is started in one step and completes in another, an    *)
(* attempt of play() is one step, and so is the one-second wait after the    *)
(* fallback.                                                                 *)

\* { retries: 3, minTimeout: 1000 }
Retries == 3

\* retry() of async-retry runs its function once and then again after each
\* failure, up to `retries` more times
MaxAttempts(retries) == retries + 1

\* the track lists the playback actions can find: ids are distinct, as the
\* list is filtered by id, and a track has a uri or has none
PlayLists ==
    UNION {{[i \in 1..n |-> Song(i, uris[i])] :
                uris \in {u \in [1..n -> 0..n] : \A i \in 1..n : u[i] \in {i, NoUri}}} :
           n \in 0..MaxQueue}

\* tracks.filter(track => track != null && track.uri != null).map(track => track.uri)
TrackUris(arr) ==
    LET valid == SelectSeq(arr, LAMBDA t : t.uri # NoUri)
    IN  [i \in 1..Len(valid) |-> valid[i].uri]

\* one call the player received
Request(op, uris, index) == [op |-> op, uris |-> uris, index |-> index]

\* what one call of play() can come to: putMePlayerPlay starts the uris,
\* launchSpotifyAndPlay runs the PlayTrack script on the first of them, or
\* the call throws
PlayPaths == {"putMePlayerPlay", "launchSpotifyAndPlay", "throw"}

\* what one call of addToQueue can come to
QueueResults == {"ok", "no active device", "other"}

InitPlayer ==
    /\ IdleCommand
    /\ IdleResolver
    /\ IdleParse
    /\ IdleTracks
    /\ IdleYouTube
    /\ IdleErrors
    /\ IdleHistoryList
    /\ IdleQuickLook
    /\ IdleDownloads
    /\ IdleLabels
    /\ variant = "part_000"
    /\ playTracks \in PlayLists
    /\ handler = "none"
    /\ hpc = "idle"
    /\ loopIndex = 0
    /\ startedPlayback = FALSE
    /\ inFlight = <<>>
    /\ attempts = 0
    /\ player = <<>>
    /\ toast = "none"

\* playPlaylist up to its retry()
PlayPlaylist ==
    /\ hpc = "idle"
    /\ handler' = "playPlaylist"
    /\ IF Len(playTracks) = 0
         THEN hpc' = "done" /\ toast' = toast
         ELSE IF Len(TrackUris(playTracks)) = 0
                THEN hpc' = "done" /\ toast' = "Could not play playlist"
                ELSE hpc' = "retry" /\ toast' = toast
    /\ UNCHANGED <<playTracks, loopIndex, startedPlayback, inFlight, attempts, player>>
    /\ UNCHANGED beyondPlayer

\* addSongsToQueue up to its loop
AddSongsToQueue ==
    /\ hpc = "idle"
    /\ handler' = "addSongsToQueue"
    /\ IF Len(playTracks) = 0
         THEN hpc' = "done" /\ loopIndex' = loopIndex
         ELSE hpc' = "loop" /\ loopIndex' = 1
    /\ UNCHANGED <<playTracks, startedPlayback, inFlight, attempts, player, toast>>
    /\ UNCHANGED beyondPlayer

\* where the loop stands once an addToQueue call was started, had the call
\* not been awaited
AfterStartUnawaited == "loop"

\* await addToQueue(...): the loop goes no further until the call completes
AfterStart == "addToQueue"

\* if (!track || !track.uri) continue
SkipTrack ==
    /\ hpc = "loop"
    /\ loopIndex <= Len(playTracks)
    /\ playTracks[loopIndex].uri = NoUri
    /\ loopIndex' = loopIndex + 1
    /\ UNCHANGED <<playTracks, handler, hpc, startedPlayback, inFlight, attempts, player,
                   toast>>
    /\ UNCHANGED beyondPlayer

\* addToQueue({ uri: track.uri }) is called
StartAdd ==
    /\ hpc = "loop"
    /\ loopIndex <= Len(playTracks)
    /\ playTracks[loopIndex].uri # NoUri
    /\ inFlight' = Append(inFlight, Request("addToQueue", <<playTracks[loopIndex].uri>>,
                                            loopIndex))
    /\ hpc' = AfterStart
    /\ UNCHANGED <<playTracks, handler, loopIndex, startedPlayback, attempts, player, toast>>
    /\ UNCHANGED beyondPlayer

\* is the error one that the fallback answers
NoDevice(result) == result = "no active device"

FallsBackAgain(playing, result) == NoDevice(result)

\* if (!startedPlayback && (errorMessage.includes(...) || ...))
FallsBack(playing, result) == ~playing /\ NoDevice(result)

\* the addToQueue call completes: the track is in the queue, or the catch
\* block starts the fallback or throws the error on
CompleteAdd(k, result) ==
    /\ hpc = "addToQueue"
    /\ k \in 1..Len(inFlight)
    /\ inFlight' = [j \in 1..(Len(inFlight) - 1) |->
                        IF j < k THEN inFlight[j] ELSE inFlight[j + 1]]
    /\ IF result = "ok"
         THEN /\ player' = Append(player, inFlight[k])
              /\ hpc' = "loop"
              /\ loopIndex' = loopIndex + 1
              /\ UNCHANGED <<attempts, toast>>
         ELSE IF FallsBack(startedPlayback, result)
                THEN /\ hpc' = "retry"
                     /\ attempts' = 0
                     /\ UNCHANGED <<player, loopIndex, toast>>
                ELSE /\ hpc' = "done"
                     /\ toast' = "Could not add songs to queue"
                     /\ UNCHANGED <<player, loopIndex, attempts>>
    /\ UNCHANGED <<playTracks, handler, startedPlayback>>
    /\ UNCHANGED beyondPlayer

\* the argument of play(): { uris: trackUris } or { id: track.id, type: "track" }
PlayUris ==
    IF handler = "playPlaylist" THEN TrackUris(playTracks) ELSE <<playTracks[loopIndex].id>>

\* what the player is asked to do by a call of play() that does not throw
Played(path, uris, index) ==
    IF path = "putMePlayerPlay"
        THEN Request("play", uris, index)
        ELSE Request("PlayTrack", <<uris[1]>>, index)

\* the failure toast of the action
FailureToast ==
    IF handler = "playPlaylist" THEN "Could not play playlist"
                                ELSE "Could not add songs to queue"

\* one attempt of retry(): play() is called; on a throw retry() calls it again
\* after the timeout, unless the retries are used up
PlayAttempt(path) ==
    /\ hpc = "retry"
    /\ attempts' = attempts + 1
    /\ IF path = "throw"
         THEN /\ IF attempts + 1 < MaxAttempts(Retries)
                   THEN hpc' = "retry" /\ toast' = toast
                   ELSE hpc' = "done" /\ toast' = FailureToast
              /\ UNCHANGED <<player, startedPlayback>>
         ELSE /\ player' = Append(player, Played(path, PlayUris, loopIndex))
              /\ IF handler = "playPlaylist"
                   THEN /\ hpc' = "done"
                        /\ toast' = "Playing playlist"
                        /\ UNCHANGED startedPlayback
                   ELSE /\ hpc' = "wait"
                        /\ startedPlayback' = TRUE
                        /\ toast' = toast
    /\ UNCHANGED <<playTracks, handler, loopIndex, inFlight>>
    /\ UNCHANGED beyondPlayer

\* await new Promise((resolve) => setTimeout(resolve, 1000)) is over
WaitOver ==
    /\ hpc = "wait"
    /\ hpc' = "loop"
    /\ loopIndex' = loopIndex + 1
    /\ UNCHANGED <<playTracks, handler, startedPlayback, inFlight, attempts, player, toast>>
    /\ UNCHANGED beyondPlayer

\* the loop is over: the success toast
QueueDone ==
    /\ hpc = "loop"
    /\ loopIndex > Len(playTracks)
    /\ hpc' = "done"
    /\ toast' = IF startedPlayback THEN "Started playing and added songs to queue"
                                   ELSE "Added songs to queue"
    /\ UNCHANGED <<playTracks, handler, loopIndex, startedPlayback, inFlight, attempts,
                   player>>
    /\ UNCHANGED beyondPlayer

NextPlayer ==
    \/ PlayPlaylist
    \/ AddSongsToQueue
    \/ SkipTrack
    \/ StartAdd
    \/ \E k \in 1..MaxQueue, result \in QueueResults : CompleteAdd(k, result)
    \/ \E path \in PlayPaths : PlayAttempt(path)
    \/ WaitOver
    \/ QueueDone

SpecPlayer == InitPlayer /\ [][NextPlayer]_vars

-----------------------------------------------------------------------------
(* YouTube Music: the Like command                                           *)
(*                                                                           *)
(* The command hands its script to runJSInYouTubeMusicTab, which runs it in  *)
(* a matching browser tab through AppleScript. Two revisions of that helper  *)
(* are in the source: the one of utils.ts and the later one that the         *)
(* changelog describes. A text is a sequence of fragments, and a fragment    *)
(* that the code searches for is one element of it.                          *)

\* the two revisions of runJSInYouTubeMusicTab
UtilsRevisions == {"utils.ts", "next-chapter.tsx"}

\* the like button of the page: none, the one of YouTube Music, the one of YouTube
LikeButtons == {"none", "ytmusic-like-button-renderer", "ytd-menu-renderer"}

\* result.includes(fragment)
ResultIncludes(text, fragment) == \E i \in 1..Len(text) : text[i] = fragment

\* what the AppleScript returns when no tab matches
NoTabResult(rev) == IF rev = "utils.ts" THEN <<"false">> ELSE <<"no-matching-tab">>

\* return "JS Error: " & errMsg
JsError(errMsg) == <<"JS Error", ": ", errMsg>>

\* result.split("JS Error: ")[1]
ErrorMessageOf(text) == IF Len(text) >= 3 THEN SubSeq(text, 3, Len(text)) ELSE <<>>

ClickAlways(button, pressed) == "like-clicked"

\* function clickIfNotPressed(button): the string it returns; it clicks when
\* it returns like-clicked
ClickIfNotPressed(button, pressed) ==
    IF button = "none" \/ pressed THEN "like-already-clicked" ELSE "like-clicked"

\* export const like: the string the script returns
LikeScript(button, pressed) ==
    IF button = "ytmusic-like-button-renderer" THEN ClickIfNotPressed(button, pressed)
    ELSE IF button = "ytd-menu-renderer" THEN ClickIfNotPressed(button, pressed)
    ELSE "like-not-found"

\* what runJSInYouTubeMusicTab came to
Returned(text) == [kind |-> "return", value |-> text]
ReturnedUndefined == [kind |-> "undefined", value |-> <<>>]
Thrown(text) == [kind |-> "throw", value |-> text]

InitYouTube ==
    /\ IdleCommand
    /\ IdleResolver
    /\ IdleParse
    /\ IdleTracks
    /\ IdlePlayer
    /\ IdleErrors
    /\ IdleHistoryList
    /\ IdleQuickLook
    /\ IdleDownloads
    /\ IdleLabels
    /\ variant = "part_000"
    /\ utils \in UtilsRevisions
    /\ tabOpen \in BOOLEAN
    /\ jsAllowed \in BOOLEAN
    /\ likeButton \in LikeButtons
    /\ ariaPressed \in BOOLEAN
    /\ likeButton = "none" => ~ariaPressed
    /\ clicks = <<>>
    /\ ypc = "idle"
    /\ osaResult = <<>>
    /\ jsOutcome = Running
    /\ hud = <<>>
    /\ failureToast = <<>>
    /\ invoked = 0

\* the command is invoked: runJSInYouTubeMusicTab(like) is called
InvokeLike ==
    /\ ypc = "idle"
    /\ invoked < MaxLikes
    /\ invoked' = invoked + 1
    /\ ypc' = "runAppleScript"
    /\ osaResult' = <<>>
    /\ jsOutcome' = Running
    /\ hud' = <<>>
    /\ failureToast' = <<>>
    /\ UNCHANGED <<utils, tabOpen, jsAllowed, likeButton, ariaPressed, clicks>>
    /\ UNCHANGED beyondYouTube

\* await runAppleScript(...): the script runs in the first matching tab; a
\* click on the like button toggles aria-pressed
RunAppleScript(jsThrows) ==
    /\ ypc = "runAppleScript"
    /\ ypc' = "result"
    /\ IF ~tabOpen
         THEN /\ osaResult' = NoTabResult(utils)
              /\ UNCHANGED <<ariaPressed, clicks>>
         ELSE IF ~jsAllowed
                THEN /\ osaResult' = JsError("Allow JavaScript from Apple Events")
                     /\ UNCHANGED <<ariaPressed, clicks>>
                ELSE IF jsThrows
                       THEN /\ osaResult' = JsError("TypeError")
                            /\ UNCHANGED <<ariaPressed, clicks>>
                       ELSE /\ osaResult' = <<LikeScript(likeButton, ariaPressed)>>
                            /\ IF LikeScript(likeButton, ariaPressed) = "like-clicked"
                                 THEN /\ ariaPressed' = ~ariaPressed
                                      /\ clicks' = Append(clicks, [run |-> invoked,
                                                                   pressed |-> ariaPressed])
                                 ELSE UNCHANGED <<ariaPressed, clicks>>
    /\ UNCHANGED <<utils, tabOpen, jsAllowed, likeButton, jsOutcome, hud, failureToast,
                   invoked>>
    /\ UNCHANGED beyondYouTube

\* runJSInYouTubeMusicTab after the await, utils.ts: the outcome and the HUD
\* it shows
OutcomeUtils(text) ==
    IF text = <<"false">>
        THEN [outcome |-> ReturnedUndefined, hud |-> <<>>, toast |-> <<>>]
    ELSE IF ResultIncludes(text, "Allow JavaScript from Apple Events")
        THEN [outcome |-> ReturnedUndefined,
              hud |-> <<<<"Enable Allow JavaScript from Apple Events">>>>,
              toast |-> <<>>]
    ELSE [outcome |-> Returned(text), hud |-> <<>>, toast |-> <<>>]

\* runJSInYouTubeMusicTab after the await, the later revision: the outcome
\* and the failure toast it shows
OutcomeLater(text) ==
    IF ResultIncludes(text, "Allow JavaScript from Apple Events")
        THEN [outcome |-> Thrown(<<"Enable Allow JavaScript from Apple Events">>),
              hud |-> <<>>,
              toast |-> <<"Enable JavaScript from Apple Events">>]
    ELSE IF ResultIncludes(text, "JS Error")
        THEN [outcome |-> Thrown(ErrorMessageOf(text)), hud |-> <<>>,
              toast |-> <<"JavaScript Error">>]
    ELSE IF text = <<"no-matching-tab">>
        THEN [outcome |-> Thrown(<<"No matching tab found">>), hud |-> <<>>,
              toast |-> <<"No matching tab found">>]
    ELSE [outcome |-> Returned(text), hud |-> <<>>, toast |-> <<>>]

Outcome(rev, text) == IF rev = "utils.ts" THEN OutcomeUtils(text) ELSE OutcomeLater(text)

\* switch (result) of the Like command
HudOf(o) ==
    IF o.kind = "throw" THEN <<>>
    ELSE IF o.kind = "undefined" THEN <<<<"Unknown Error: ", "undefined">>>>
    ELSE IF o.value = <<"like-already-clicked">> THEN <<<<"Already liked">>>>
    ELSE IF o.value = <<"like-clicked">> THEN <<<<"Liked">>>>
    ELSE IF o.value = <<"like-not-found">> THEN <<<<"Not found">>>>
    ELSE <<<<"Unknown Error: ">> \o o.value>>

\* the rest of runJSInYouTubeMusicTab and of the command
Report ==
    /\ ypc = "result"
    /\ LET o == Outcome(utils, osaResult)
       IN  /\ jsOutcome' = o.outcome
           /\ failureToast' = failureToast \o o.toast
           /\ hud' = hud \o o.hud \o HudOf(o.outcome)
    /\ ypc' = "idle"
    /\ UNCHANGED <<utils, tabOpen, jsAllowed, likeButton, ariaPressed, clicks, osaResult,
                   invoked>>
    /\ UNCHANGED beyondYouTube

NextYouTube ==
    \/ InvokeLike
    \/ \E jsThrows \in BOOLEAN : RunAppleScript(jsThrows)
    \/ Report

SpecYouTube == InitYouTube /\ [][NextYouTube]_vars

-----------------------------------------------------------------------------
(* getErrorMessage on the errors the pipeline raises                          *)
(*                                                                           *)
(* The text of a parse failure ends with the message of the SyntaxError of   *)
(* JSON.parse, which quotes the position of the offending character or a     *)
(* piece of the answer itself: its detail is any text.                       *)

\* fragments the detail of a SyntaxError can hold
DetailFragments == {"Unexpected token", "503", "429", "heroku"}

\* `Failed to parse AI response: ${parseError.message}`
ParseFailures == {FailedToParse \cup detail : detail \in SUBSET DetailFragments}

\* the errors the catch blocks of the command can receive
Failures ==
    ParseFailures
        \cup {NoJsonFound, ContainsNoSongs, NoneFound, TypeError}
        \cup (SUBSET ServiceUnavailable \ {{}})
        \cup (SUBSET {"429", "rate limit"} \ {{}})

InitErrors ==
    /\ IdleCommand
    /\ IdleResolver
    /\ IdleParse
    /\ IdleTracks
    /\ IdlePlayer
    /\ IdleYouTube
    /\ IdleHistoryList
    /\ IdleQuickLook
    /\ IdleDownloads
    /\ IdleLabels
    /\ variant = "part_000"
    /\ caught = {}
    /\ reported = {}
    /\ catches = 0

\* an error reaches a catch block
Catch(errorString) ==
    /\ catches < MaxErrors
    /\ caught = {} \/ reported # {}
    /\ caught' = errorString
    /\ reported' = {}
    /\ catches' = catches + 1
    /\ UNCHANGED beyondErrors

\* message: getErrorMessage(err)
Report000 ==
    /\ caught # {}
    /\ reported = {}
    /\ reported' = GetErrorMessage000(caught)
    /\ UNCHANGED <<caught, catches>>
    /\ UNCHANGED beyondErrors

NextErrors ==
    \/ \E errorString \in Failures : Catch(errorString)
    \/ Report000

SpecErrors == InitErrors /\ [][NextErrors]_vars

-----------------------------------------------------------------------------
(* TuneHistoryList with Delete Version                                        *)
(*                                                                           *)
(* The parent pushes the list with the props of the render in which the      *)
(* action was built. Whether the pushed list receives the props of later     *)
(* renders of the parent is left open: RefreshProps may or may not happen.   *)
(* A playlist is a number, so that indexOf finds it by identity.             *)

\* the values the setHistory prop can have: part_009 526, 933 pass none,
\* the props type of part_008 asks for the setter of the parent
SetHistoryProps == {"undefined", "setHistory"}

\* history.indexOf(currentPlaylist), -1 when it is null or not in the list
IndexOfPlaylist(h, current) ==
    IF current # NoPlaylist /\ \E i \in 1..Len(h) : h[i] = current
        THEN (CHOOSE i \in 1..Len(h) : h[i] = current /\ \A j \in 1..(i - 1) : h[j] # current) - 1
        ELSE -1

\* localHistory.filter((_, i) => i !== index)
WithoutIndex(h, index) ==
    [i \in 1..(Len(h) - (IF index >= 0 /\ index < Len(h) THEN 1 ELSE 0)) |->
        IF i <= index THEN h[i] ELSE h[i + 1]]

\* jumpToVersion(index) of the render whose history is h: the playlist that
\* is current afterwards
JumpIn(h, current, index) ==
    IF index >= 0 /\ index < Len(h) THEN h[index + 1] ELSE current

\* the index handleDelete gives to onSelect; listIndex is the currentIndex of
\* the list
SelectAfterDelete(listIndex, index, newLength) ==
    IF listIndex > index THEN listIndex - 1
    ELSE IF listIndex = index /\ newLength > 0
        THEN (IF listIndex - 1 > 0 THEN listIndex - 1 ELSE 0)
    ELSE listIndex

InitHistoryList ==
    /\ IdleCommand
    /\ IdleResolver
    /\ IdleParse
    /\ IdleTracks
    /\ IdlePlayer
    /\ IdleYouTube
    /\ IdleErrors
    /\ IdleQuickLook
    /\ IdleDownloads
    /\ IdleLabels
    /\ variant = "part_009"
    /\ \E n \in 1..MaxVersions : parentHistory = [i \in 1..n |-> i]
    /\ parentCurrent \in {parentHistory[i] : i \in 1..Len(parentHistory)}
    /\ setHistoryProp \in SetHistoryProps
    /\ viewOpen = FALSE
    /\ propsHistory = <<>>
    /\ propsCurrent = NoPlaylist
    /\ localHistory = <<>>
    /\ deletes = 0
    /\ deleted = NotDeleted

\* Action.Push: View History
PushHistoryList ==
    /\ ~viewOpen
    /\ viewOpen' = TRUE
    /\ propsHistory' = parentHistory
    /\ propsCurrent' = parentCurrent
    /\ localHistory' = parentHistory
    /\ UNCHANGED <<parentHistory, parentCurrent, setHistoryProp, deletes, deleted>>
    /\ UNCHANGED beyondHistoryList

\* the pushed list is rendered with the props of the parent's latest render;
\* useEffect(() => setLocalHistory(history), [history])
RefreshProps ==
    /\ viewOpen
    /\ propsHistory # parentHistory \/ propsCurrent # parentCurrent
    /\ propsHistory' = parentHistory
    /\ propsCurrent' = parentCurrent
    /\ localHistory' = IF propsHistory # parentHistory THEN parentHistory ELSE localHistory
    /\ UNCHANGED <<parentHistory, parentCurrent, setHistoryProp, viewOpen, deletes, deleted>>
    /\ UNCHANGED beyondHistoryList

\* handleDelete(index)
HandleDelete(index) ==
    /\ viewOpen
    /\ deletes < MaxDeletes
    /\ index \in 0..(Len(localHistory) - 1)
    /\ deletes' = deletes + 1
    /\ LET listIndex == IndexOfPlaylist(propsHistory, propsCurrent)
           newHistory == WithoutIndex(localHistory, index)
       IN  /\ localHistory' = newHistory
           /\ IF setHistoryProp = "undefined"
                THEN /\ deleted' = [index |-> index, thrown |-> "TypeError"]
                     /\ UNCHANGED <<parentHistory, parentCurrent>>
                ELSE /\ deleted' = [index |-> index, thrown |-> "none"]
                     /\ parentHistory' = newHistory
                     /\ parentCurrent' =
                            JumpIn(propsHistory, parentCurrent,
                                   SelectAfterDelete(listIndex, index, Len(newHistory)))
    /\ UNCHANGED <<setHistoryProp, viewOpen, propsHistory, propsCurrent>>
    /\ UNCHANGED beyondHistoryList

\* Jump to Version: onSelect(index); pop()
JumpFromList(index) ==
    /\ viewOpen
    /\ index \in 0..(Len(localHistory) - 1)
    /\ parentCurrent' = JumpIn(propsHistory, parentCurrent, index)
    /\ viewOpen' = FALSE
    /\ UNCHANGED <<parentHistory, setHistoryProp, propsHistory, propsCurrent, localHistory,
                   deletes, deleted>>
    /\ UNCHANGED beyondHistoryList

NextHistoryList ==
    \/ PushHistoryList
    \/ RefreshProps
    \/ \E index \in 0..(MaxVersions - 1) : HandleDelete(index)
    \/ \E index \in 0..(MaxVersions - 1) : JumpFromList(index)

SpecHistoryList == InitHistoryList /\ [][NextHistoryList]_vars

-----------------------------------------------------------------------------
(* getQuickLookPreviewDataUrl                                                 *)
(*                                                                           *)
(* Each call runs the executor of its promise at once; afterwards its        *)
(* timeout and the callback of execFile run in either order, and the         *)
(* callback may never come.                                                  *)

PreviewCalls == 1..MaxPreviews

Platforms == {"darwin", "win32"}

\* how the synchronous part of the executor can go
ExecutorPaths == {"mkdtempSync throws", "execFile throws", "execFile started"}

\* what the callback of execFile can find
CallbackPaths == {"error", "no png", "png", "readFileSync throws"}

ResolvesAgain(flag) == TRUE

\* resolveOnce: if (!resolved)
Resolves(flag) == ~flag

\* resolveOnce(value) on call c
ResolveOnce(c, value) ==
    IF Resolves(resolvedOnce[c])
        THEN /\ resolvedOnce' = [resolvedOnce EXCEPT ![c] = TRUE]
             /\ resolveCalls' = [resolveCalls EXCEPT ![c] = @ + 1]
             /\ promise' = [promise EXCEPT ![c] = IF @ = "pending" THEN value ELSE @]
        ELSE UNCHANGED <<resolvedOnce, resolveCalls, promise>>

\* cleanup() on call c, when tempDir is as given: rmSync removes the directory
Cleanup(c, dir) == dirOnDisk' = [dirOnDisk EXCEPT ![c] = IF dir THEN FALSE ELSE @]

InitQuickLook ==
    /\ IdleCommand
    /\ IdleResolver
    /\ IdleParse
    /\ IdleTracks
    /\ IdlePlayer
    /\ IdleYouTube
    /\ IdleErrors
    /\ IdleHistoryList
    /\ IdleDownloads
    /\ IdleLabels
    /\ variant = "part_000"
    /\ platform \in Platforms
    /\ stage = [c \in PreviewCalls |-> "new"]
    /\ tempDir = [c \in PreviewCalls |-> FALSE]
    /\ dirOnDisk = [c \in PreviewCalls |-> FALSE]
    /\ resolvedOnce = [c \in PreviewCalls |-> FALSE]
    /\ resolveCalls = [c \in PreviewCalls |-> 0]
    /\ promise = [c \in PreviewCalls |-> "pending"]
    /\ timer = [c \in PreviewCalls |-> FALSE]
    /\ child = [c \in PreviewCalls |-> FALSE]
    /\ fired = [c \in PreviewCalls |-> <<>>]

\* new Promise((resolve) => { ... }): the executor
Executor(c, path) ==
    /\ stage[c] = "new"
    /\ stage' = [stage EXCEPT ![c] = "called"]
    /\ IF platform # "darwin"
         THEN /\ resolveCalls' = [resolveCalls EXCEPT ![c] = @ + 1]
              /\ promise' = [promise EXCEPT ![c] = "null"]
              /\ UNCHANGED <<tempDir, dirOnDisk, resolvedOnce, timer, child>>
         ELSE IF path = "mkdtempSync throws"
                THEN /\ ResolveOnce(c, "null")
                     /\ UNCHANGED <<tempDir, dirOnDisk, timer, child>>
         ELSE IF path = "execFile throws"
                THEN /\ tempDir' = [tempDir EXCEPT ![c] = TRUE]
                     /\ ResolveOnce(c, "null")
                     /\ UNCHANGED <<dirOnDisk, timer, child>>
         ELSE /\ tempDir' = [tempDir EXCEPT ![c] = TRUE]
              /\ dirOnDisk' = [dirOnDisk EXCEPT ![c] = TRUE]
              /\ timer' = [timer EXCEPT ![c] = TRUE]
              /\ child' = [child EXCEPT ![c] = TRUE]
              /\ UNCHANGED <<resolvedOnce, resolveCalls, promise>>
    /\ UNCHANGED <<platform, fired>>
    /\ UNCHANGED beyondQuickLook

\* the callback of setTimeout
Timeout(c) ==
    /\ timer[c]
    /\ timer' = [timer EXCEPT ![c] = FALSE]
    /\ Cleanup(c, tempDir[c])
    /\ ResolveOnce(c, "null")
    /\ fired' = [fired EXCEPT ![c] = Append(@, "timeout")]
    /\ UNCHANGED <<platform, stage, tempDir, child>>
    /\ UNCHANGED beyondQuickLook

\* the callback of execFile
Callback(c, path) ==
    /\ child[c]
    /\ path = "png" => dirOnDisk[c]
    /\ child' = [child EXCEPT ![c] = FALSE]
    /\ ResolveOnce(c, IF path = "png" THEN "data:image/png" ELSE "null")
    /\ timer' = [timer EXCEPT ![c] = FALSE]
    /\ Cleanup(c, tempDir[c])
    /\ fired' = [fired EXCEPT ![c] = Append(@, "callback")]
    /\ UNCHANGED <<platform, stage, tempDir>>
    /\ UNCHANGED beyondQuickLook

NextQuickLook ==
    \/ \E c \in PreviewCalls, path \in ExecutorPaths : Executor(c, path)
    \/ \E c \in PreviewCalls : Timeout(c)
    \/ \E c \in PreviewCalls, path \in CallbackPaths : Callback(c, path)

\* a pending timeout runs; the callback of execFile need not
SpecQuickLook ==
    /\ InitQuickLook
    /\ [][NextQuickLook]_vars
    /\ \A c \in PreviewCalls : WF_vars(Timeout(c))

-----------------------------------------------------------------------------
(* The paginated downloads list *)

\* The files of the folder are named by the rank getDownloads' sort gives
\* them (1 is the most recent), so the sorted listing is the ascending one.
Files == 1..MaxFiles

RECURSIVE SortedFiles(_)
SortedFiles(S) ==
    IF S = {} THEN <<>>
    ELSE LET first == CHOOSE x \in S : \A y \in S : x <= y
         IN <<first>> \o SortedFiles(S \ {first})

\* allDownloads.slice(offset, offset + limit)
GetDownloads(limit, offset, dir) ==
    LET allDownloads == SortedFiles(dir)
    IN SubSeq(allDownloads, offset + 1, Min(offset + limit, Len(allDownloads)))

\* downloads.filter((download) => !paths.includes(download.path))
RECURSIVE WithoutPaths(_, _)
WithoutPaths(list, paths) ==
    IF list = <<>> THEN <<>>
    ELSE IF Head(list) \in paths THEN WithoutPaths(Tail(list), paths)
    ELSE <<Head(list)>> \o WithoutPaths(Tail(list), paths)

\* readdirSync returns the listing or throws
Readings == {"listing", "throws"}

InitDownloads ==
    /\ IdleCommand
    /\ IdleResolver
    /\ IdleParse
    /\ IdleTracks
    /\ IdlePlayer
    /\ IdleYouTube
    /\ IdleErrors
    /\ IdleHistoryList
    /\ IdleQuickLook
    /\ IdleLabels
    /\ variant = "part_002"
    /\ \E n \in 0..MaxFiles : folder = 1..n
    /\ downloads = <<>>
    /\ isLoading = TRUE
    /\ hasMore = TRUE
    /\ nextOffset = 0
    /\ mounted = FALSE

\* loadNextPage(offset): synchronous, so the fresh AbortController is never
\* aborted and setIsLoading(true) is overwritten by the finally in one batch
LoadNextPage(offset, reading) ==
    /\ isLoading' = FALSE
    /\ IF reading = "throws"
       THEN UNCHANGED <<downloads, hasMore>> /\ nextOffset' = nextOffset
       ELSE LET newDownloads == GetDownloads(PAGE_SIZE, offset, folder)
            IN /\ downloads' = IF offset = 0 THEN newDownloads
                               ELSE downloads \o newDownloads
               /\ hasMore' = (Len(newDownloads) = PAGE_SIZE)
               /\ nextOffset' = offset + PAGE_SIZE

\* useEffect(() => { loadNextPage(0) }, [loadNextPage])
Mount(reading) ==
    /\ ~mounted
    /\ mounted' = TRUE
    /\ LoadNextPage(0, reading)
    /\ UNCHANGED folder
    /\ UNCHANGED beyondDownloads

\* handleLoadMore, called by the list when its end is reached
HandleLoadMore(reading) ==
    /\ mounted
    /\ ~isLoading /\ hasMore
    /\ LoadNextPage(nextOffset, reading)
    /\ UNCHANGED <<folder, mounted>>
    /\ UNCHANGED beyondDownloads

\* Action.Trash moves the paths to the trash and calls onTrash = handleTrash
HandleTrash(paths) ==
    /\ mounted
    /\ folder' = folder \ paths
    /\ downloads' = WithoutPaths(downloads, paths)
    /\ UNCHANGED <<isLoading, hasMore, nextOffset, mounted>>
    /\ UNCHANGED beyondDownloads

\* "Delete Download" on one entry
TrashOne == \E i \in 1..Len(downloads) : HandleTrash({downloads[i]})

\* "Delete All Downloads": paths={downloads.map((d) => d.path)}
TrashAll == Len(downloads) > 0 /\ HandleTrash({downloads[i] : i \in 1..Len(downloads)})

\* handleReload, an action of the panel of an entry
HandleReload(reading) ==
    /\ mounted
    /\ Len(downloads) > 0
    /\ IF reading = "throws"
       THEN /\ nextOffset' = 0
            /\ isLoading' = FALSE
            /\ UNCHANGED <<downloads, hasMore>>
       ELSE LoadNextPage(0, reading)
    /\ UNCHANGED <<folder, mounted>>
    /\ UNCHANGED beyondDownloads

NextDownloads ==
    \/ \E reading \in Readings : Mount(reading)
    \/ \E reading \in Readings : HandleLoadMore(reading)
    \/ TrashOne
    \/ TrashAll
    \/ \E reading \in Readings : HandleReload(reading)

SpecDownloads == InitDownloads /\ [][NextDownloads]_vars

-----------------------------------------------------------------------------
(* Platform labels of a pull request *)

\* A label name is the sequence of the pieces it is built from, so that
\* `platform: ${p}` is a concatenation and startsWith a test of the first piece.
PlatformPrefix == "platform: "
PlatformNames == {"macOS", "Windows"}
PlatformLabel(p) == <<PlatformPrefix, p>>
StartsWithPlatform(n) == n[1] = PlatformPrefix

\* the labels a pull request can carry, in the order the API lists them
LabelOrder ==
    <<<<"new extension">>, PlatformLabel("macOS"), <<"AI Extension">>, PlatformLabel("Windows")>>
Labels == {LabelOrder[i] : i \in 1..Len(LabelOrder)}

\* the platforms argument: an array of platform names
PlatformLists == UNION {[1..n -> PlatformNames] : n \in 0..MaxPlatforms}

InArray(arr, x) == \E i \in 1..Len(arr) : arr[i] = x
ArrayElements(arr) == {arr[i] : i \in 1..Len(arr)}

\* data.map((l) => l.name) of listLabelsOnIssue
ListLabelsOnIssue(onPr) == SelectSeq(LabelOrder, LAMBDA l : l \in onPr)

\* how an API call can go
ApiOutcomes == {"ok", "throws"}

\* _fetchLabelsOnce(): the memo if there is one, else the listing, or [] when
\* the listing throws
FetchLabelsOnce(memo, onPr, fetching) ==
    IF ~memo.isNull THEN memo.names
    ELSE IF fetching = "ok" THEN ListLabelsOnIssue(onPr)
    ELSE <<>>

InitLabels ==
    /\ IdleCommand
    /\ IdleResolver
    /\ IdleParse
    /\ IdleTracks
    /\ IdlePlayer
    /\ IdleYouTube
    /\ IdleErrors
    /\ IdleHistoryList
    /\ IdleQuickLook
    /\ IdleDownloads
    /\ variant = "part_001"
    /\ prLabels \in SUBSET Labels
    /\ labelsMemo = [isNull |-> TRUE, names |-> <<>>]
    /\ listCalls = 0
    /\ syncCalls = 0
    /\ returned = <<>>
    /\ lastCall = [given |-> FALSE, platforms |-> <<>>, before |-> {}, succeeded |-> TRUE]

\* syncPlatformLabels() without argument: read-only
ReadPlatformLabels(fetching) ==
    /\ syncCalls < MaxSyncs
    /\ labelsMemo.isNull \/ fetching = "ok"
    /\ LET currentNames == FetchLabelsOnce(labelsMemo, prLabels, fetching)
       IN /\ labelsMemo' = [isNull |-> FALSE, names |-> currentNames]
          /\ returned' = SelectSeq(currentNames, StartsWithPlatform)
    /\ listCalls' = listCalls + (IF labelsMemo.isNull THEN 1 ELSE 0)
    /\ syncCalls' = syncCalls + 1
    /\ lastCall' = [given |-> FALSE, platforms |-> <<>>, before |-> prLabels,
                    succeeded |-> lastCall.succeeded /\ fetching = "ok"]
    /\ UNCHANGED prLabels
    /\ UNCHANGED beyondLabels

\* syncPlatformLabels(platforms): fetching is how listLabelsOnIssue goes,
\* failing the labels whose removeLabel throws, adding how addLabels goes
SyncPlatformLabels(platforms, fetching, failing, adding) ==
    /\ syncCalls < MaxSyncs
    /\ labelsMemo.isNull \/ fetching = "ok"
    /\ LET currentNames == FetchLabelsOnce(labelsMemo, prLabels, fetching)
           existingPlatformLabels == SelectSeq(currentNames, StartsWithPlatform)
           newPlatformLabels == [i \in 1..Len(platforms) |-> PlatformLabel(platforms[i])]
           labelsToRemove ==
               SelectSeq(existingPlatformLabels, LAMBDA l : ~InArray(newPlatformLabels, l))
           labelsToAdd ==
               SelectSeq(newPlatformLabels, LAMBDA l : ~InArray(existingPlatformLabels, l))
           removed == ArrayElements(labelsToRemove) \ failing
           afterRemove == SelectSeq(currentNames, LAMBDA n : n \notin removed)
           added == Len(labelsToAdd) > 0 /\ adding = "ok"
           afterAdd == IF added THEN SpreadOfSet(afterRemove \o labelsToAdd, 1)
                       ELSE afterRemove
       IN /\ failing \subseteq ArrayElements(labelsToRemove)
          /\ Len(labelsToAdd) > 0 \/ adding = "ok"
          /\ prLabels' = (prLabels \ removed) \cup
                         (IF added THEN ArrayElements(labelsToAdd) ELSE {})
          /\ labelsMemo' = [isNull |-> FALSE, names |-> afterAdd]
          /\ returned' = SelectSeq(afterAdd, StartsWithPlatform)
          /\ lastCall' = [given |-> TRUE, platforms |-> platforms, before |-> prLabels,
                          succeeded |-> /\ lastCall.succeeded
                                        /\ fetching = "ok"
                                        /\ failing = {}
                                        /\ adding = "ok"]
    /\ listCalls' = listCalls + (IF labelsMemo.isNull THEN 1 ELSE 0)
    /\ syncCalls' = syncCalls + 1
    /\ UNCHANGED beyondLabels

NextLabels ==
    \/ \E fetching \in ApiOutcomes : ReadPlatformLabels(fetching)
    \/ \E platforms \in PlatformLists, fetching \in ApiOutcomes,
          failing \in SUBSET Labels, adding \in ApiOutcomes :
            SyncPlatformLabels(platforms, fetching, failing, adding)

SpecLabels == InitLabels /\ [][NextLabels]_vars

-----------------------------------------------------------------------------
(* The history and its cursor *)

\* C1: whenever the history is non-empty, 0 <= currentIndex < history.length,
\* after any sequence of generation, tune, revert, redo and jump, also when the
\* user acts while a tune request is in flight.
C1_CursorInRange ==
    Len(history) > 0 => CurrentIndex >= 0 /\ CurrentIndex < Len(history)

\* the request whose continuation ran last was started by the step before it
UninterruptedTune == evt.op = "tune" /\ evt'.op = "tuneOk" /\ evt'.id = evt.id

\* C2: a tune that succeeds with the cursor at i, nothing having run since it was
\* started, leaves the first i+1 old versions followed by the new one, cursor i+1.
C2_TuneTruncatesThenAppends ==
    [][UninterruptedTune =>
         /\ Len(history') = CurrentIndex + 2
         /\ SubSeq(history', 1, CurrentIndex + 1) = SubSeq(history, 1, CurrentIndex + 1)
         /\ history'[Len(history')].ref = evt'.id
         /\ CurrentIndex' = CurrentIndex + 1]_vars

\* C3: when a tune completes successfully the cursor is the last index and the
\* entry there is the version this tune created, for every interleaving.
C3_TuneLandsOnItsVersion ==
    evt.op = "tuneOk" =>
        /\ CurrentIndex = Len(history) - 1
        /\ history[Len(history)].ref = evt.id

\* C4: no step removes or replaces a version at or before the cursor, revert,
\* redo and jump leave the list of versions as it is, and a stored version's
\* fields never change.
C4_HistoryOnlyMovesOrAppends ==
    [][/\ \A i \in 1..Min(CurrentIndex + 1, Len(history)) :
            i <= Len(history') /\ history'[i] = history[i]
       /\ evt'.op \in {"revert", "redo", "jump"} => history' = history]_vars

\* index names a version of the history
InRange(index) == index >= 0 /\ index < Len(history)

\* what a handler that does nothing leaves alone
Untouched ==
    UNCHANGED <<history, currentIndex, currentPlaylist, error, loading,
                searchText, tasks>>

\* C5: revert moves the cursor from i > 0 to i - 1 and does nothing at 0, redo
\* moves it from i below the last index to i + 1 and does nothing at the last
\* index; neither takes a cursor that is in range out of range.
C5_RevertRedoStepByOne ==
    [][/\ evt'.op = "revert" =>
            /\ CurrentIndex > 0 => CurrentIndex' = CurrentIndex - 1 /\ history' = history
            /\ CurrentIndex = 0 => Untouched
       /\ evt'.op = "redo" =>
            /\ CurrentIndex < Len(history) - 1 =>
                   CurrentIndex' = CurrentIndex + 1 /\ history' = history
            /\ CurrentIndex = Len(history) - 1 => Untouched
       /\ (evt'.op \in {"revert", "redo"} /\ InRange(CurrentIndex)) =>
            CurrentIndex' >= 0 /\ CurrentIndex' < Len(history')]_vars

\* a revert found the cursor at 1 and left it at 0
C5_Reverted ==
    evt.op = "revert" /\ evt.arg = 1 /\ CurrentIndex = 0 /\ Len(history) >= 2

Settled(id) == CHOOSE t \in tasks : t.id = id

\* C7: a tune that fails leaves the history and the cursor as they were, leaves
\* an error state carrying the prompt that failed, clears the loading flag, and
\* a retry with that prompt can then be started.
C7_FailedTuneKeepsStateAndAllowsRetry ==
    [][(variant = "part_000" /\ evt'.op = "tuneFail") =>
         /\ history' = history /\ currentIndex' = currentIndex
         /\ error' # NoError
         /\ error'.failedPrompt = Settled(evt'.id).prompt
         /\ ~IsLoading'
         /\ TuneGuard(error.failedPrompt)']_vars

-----------------------------------------------------------------------------
(* The resolver *)

\* C8: the resolver's output has the length of its input and position i holds
\* the track found for suggestion i, or null when nothing was found: a null is
\* never dropped and the list is never re-ordered.
C8_OutputAlignedWithInput ==
    outcome.state = "returned" =>
        /\ Len(outcome.tracks) = Len(aiTracks)
        /\ \A i \in 1..Len(aiTracks) : outcome.tracks[i] = slots[i]

\* no suggestion of the version was found on Spotify
AllNull(tracks) == \A i \in 1..Len(tracks) : tracks[i] = NULL

\* C9: when every lookup misses, resolution fails with the no-tracks error: no
\* version whose tracks are all null is ever stored in the history.
C9_NoAllNullVersionStored ==
    \A i \in 1..Len(history) :
        Len(history[i].tracks) > 0 => ~AllNull(history[i].tracks)

\* a search made for suggestion i threw
Threw(i) ==
    LET o == oracle[aiTracks[i]]
    IN  o.strict = "throw" \/ (o.strict = "none" /\ o.lenient = "throw")

\* what suggestion i resolves to, from the answers to its own searches alone
OwnResult(i) ==
    LET o == oracle[aiTracks[i]]
    IN  IF o.strict \in Tracks THEN o.strict
        ELSE IF o.strict = "none" /\ o.lenient \in Tracks THEN o.lenient
        ELSE NULL

\* C10: in part_000, a search that throws for one suggestion makes that position
\* null, every other position holds what its own searches gave, and the resolver
\* fails exactly when every position is null.
C10_ThrowStaysInItsSlot ==
    (variant = "part_000" /\ outcome # Pending) =>
        /\ \A i \in 1..Len(aiTracks) : Threw(i) => slots[i] = NULL
        /\ \A i \in 1..Len(aiTracks) : ~Threw(i) => slots[i] = OwnResult(i)
        /\ outcome.state = "threw" <=> AllNull(slots)
        /\ outcome.state = "returned" => outcome.tracks = slots

\* one search threw and the resolver still returned a track for another position
C10_ThrewBesideAFoundTrack ==
    /\ variant = "part_000" /\ outcome.state = "returned"
    /\ \E i \in 1..Len(aiTracks) : Threw(i)
    /\ \E j \in 1..Len(aiTracks) : ~Threw(j) /\ slots[j] # NULL

-----------------------------------------------------------------------------
(* The parser *)

\* the function has returned or thrown
ParseEnded == parsed.state \in {"returned", "threw"}

\* C11: an answer whose JSON has a trailing comma before a closing brace or
\* bracket is parsed to what the same answer without that comma is parsed to,
\* whatever the string values of the JSON hold.
C11_TrailingCommaMakesNoDifference ==
    (ParseEnded /\ response # twin) =>
        parsed = ParseAiPlaylistResponse(variant, twin)

\* a code block whose JSON has a trailing comma and a title ending in ",}"
C11_TrailingCommaBesideCommaInTitle ==
    /\ parsed.state = "returned"
    /\ response # twin
    /\ CodeBlockMatch(response).matched
    /\ \E i \in 1..(Len(twin) - 3) : SubSeq(twin, i, i + 3) = <<"x", ",", "}", Quote>>

\* part_000 parses a playlist with songs, not in a code block and with no
\* trailing comma, followed by prose or by nothing
JsonThenProse ==
    /\ variant = "part_000"
    /\ document \in ListDocuments
    /\ ~HasNoSongs(JsonParse(document).val)
    /\ ReplaceTrailingCommas(document, 1) = document
    /\ response = twin
    /\ ~CodeBlockMatch(response).matched

\* C12: for a valid playlist object followed by any prose, the brace-counting
\* repair cuts the text exactly at the end of the object and the parser
\* returns the object that substring encodes, whatever its string values hold.
C12_RepairRecoversTheJson ==
    (JsonThenProse /\ ParseEnded) =>
        /\ parsed.state = "returned"
        /\ parsed.value = JsonParse(document).val
        /\ Len(parseCalls) = 2 => jsonString = document

\* C13: the resolver is never called with tracks that are missing, not a list
\* or an empty list: for such a playlist the parsing step throws the
\* validation error and no search is made.
C13_ResolverGetsSongs ==
    /\ handed.called =>
           handed.tracks.type = "array" /\ Len(handed.tracks.items) > 0
    /\ (ParseEnded /\ playlist.type = "object" /\ HasNoSongs(playlist)) =>
           parsed = Parsed("threw", ContainsNoSongs, Undefined)

\* no "{" of the text is followed by a "}"
NoBraceSpan(s) == ~\E i, j \in 1..Len(s) : i < j /\ s[i] = "{" /\ s[j] = "}"

\* C14: without a span from "{" to a later "}" the parser throws a parse error
\* before any JSON.parse; JSON.parse is called at most twice, the second time
\* only after the first call failed; when both fail the parser throws a parse
\* error; a parser that throws returns no object.
C14_ParseErrorAfterAtMostTwoParses ==
    /\ Len(parseCalls) <= 2
    /\ Len(parseCalls) = 2 => ~parseCalls[1]
    /\ (ParseEnded /\ NoBraceSpan(response)) =>
           parsed = Parsed("threw", NoJsonFound, Undefined) /\ parseCalls = <<>>
    /\ (Len(parseCalls) = 2 /\ ~parseCalls[2]) =>
           parsed = Parsed("threw", FailedToParse, Undefined)
    /\ parsed.state = "threw" => parsed.value = Undefined /\ ~handed.called

\* the first parse and the retry both failed
C14_BothParsesFailed ==
    Len(parseCalls) = 2 /\ ~parseCalls[2] /\ parsed.state = "threw"

-----------------------------------------------------------------------------
(* The track list on display *)

RECURSIVE FirstOccurrences(_, _)
\* the track ids of the list from position i on, each where it occurs first
FirstOccurrences(arr, i) ==
    IF i > Len(arr) THEN <<>>
    ELSE IF arr[i].id = NULL \/ \E k \in 1..(i - 1) : arr[k].id = arr[i].id
         THEN FirstOccurrences(arr, i + 1)
         ELSE <<arr[i].id>> \o FirstOccurrences(arr, i + 1)

\* the ids of the entries that are not null, in their order
IdsOf(arr) ==
    LET kept == SelectSeq(arr, LAMBDA t : t.id # NULL)
    IN  [i \in 1..Len(kept) |-> kept[i].id]

\* C15: in part_000 and generatePlaylist.tsx the list that is displayed,
\* played, queued and saved holds no two non-null entries with the same track
\* id, and what remains is in the order of first occurrence in the resolved
\* list, also when two search calls returned the same track.
C15_NoDuplicateTrackIds ==
    (shown.done /\ variant \in {"part_000", "generatePlaylist"}) =>
        IdsOf(shown.tracks) = FirstOccurrences(resolved, 1)

-----------------------------------------------------------------------------
(* Requests in flight *)

\* C16: in part_000 at most one generation or tune request is in flight at any
\* time: a tune triggered while a request is outstanding starts no second one.
C16_OneRequestInFlight ==
    variant = "part_000" => Cardinality(tasks) <= 1

-----------------------------------------------------------------------------
(* Playing and queueing *)

\* the positions in the list of the tracks the player was asked for, in the
\* order it was asked
Positions == [n \in 1..Len(player) |-> player[n].index]

\* C17: Add Songs to Queue has at most one addToQueue call outstanding, starts
\* none while the fallback play() or the wait after it is pending, starts the
\* call for a track only after the player got every earlier track it gets, and
\* so the player receives the tracks in the order of the list.
C17_QueuedOneAtATimeInOrder ==
    handler = "addSongsToQueue" =>
        /\ Len(inFlight) <= 1
        /\ hpc \in {"retry", "wait"} => inFlight = <<>>
        /\ \A a, b \in 1..Len(player) : a < b => Positions[a] < Positions[b]
        /\ \A k \in 1..Len(inFlight), n \in 1..Len(player) :
               /\ Positions[n] < inFlight[k].index
               /\ inFlight[k].index = loopIndex
        /\ \A n \in 1..Len(player) : player[n].uris = <<playTracks[Positions[n]].id>>

\* the fallback started the first track and the two after it were queued
C17_PlayedThenQueuedTwo ==
    /\ handler = "addSongsToQueue"
    /\ Len(player) = 3
    /\ player[1].op # "addToQueue"
    /\ player[2].op = "addToQueue"
    /\ player[3].op = "addToQueue"
    /\ toast = "Started playing and added songs to queue"

\* C18: one Play Playlist action calls play() at most 3 times in all; a
\* success ends the action with no further call, and a failure of the last
\* allowed call ends it with the failure toast.
C18_AtMostThreeAttempts ==
    handler = "playPlaylist" =>
        /\ attempts <= 3
        /\ toast = "Playing playlist" => hpc = "done" /\ Len(player) = 1
        /\ (attempts = 3 /\ player = <<>>) => toast = "Could not play playlist"

-----------------------------------------------------------------------------
(* YouTube Music *)

\* the script did not run to its end in a matching tab
ScriptFailed == ~tabOpen \/ ~jsAllowed \/ ResultIncludes(osaResult, "JS Error")

\* C19: runJSInYouTubeMusicTab returns a string only when the script ran in a
\* matching tab; when there is no matching tab, the script raised an error or
\* Allow JavaScript from Apple Events is off, it shows a failure toast and
\* throws; it never returns undefined.
C19_ReturnsResultOrThrows ==
    jsOutcome # Running =>
        /\ jsOutcome.kind # "undefined"
        /\ jsOutcome.kind = "return" => ~ScriptFailed
        /\ ScriptFailed => jsOutcome.kind = "throw" /\ failureToast # <<>>

-----------------------------------------------------------------------------
(* The resolver, query by query *)

\* C21: per suggestion the strict query comes first and the lenient query is
\* issued exactly when the strict one answered without a hit; the position
\* holds the strict hit, else the lenient hit, else null; at most two
\* searches are made for it.
C21_StrictThenLenient ==
    variant \in {"part_000", "part_009"} =>
        \A i \in 1..Len(aiTracks) :
            /\ calls[i] <= 2
            /\ pc[i] = "lenient" => calls[i] = 1 /\ oracle[aiTracks[i]].strict = "none"
            /\ pc[i] = "done" =>
                   /\ calls[i] = 2 <=> oracle[aiTracks[i]].strict = "none"
                   /\ slots[i] = OwnResult(i)

\* the list the resolver returns when each position holds what its own
\* searches gave
OwnResults == [i \in 1..Len(aiTracks) |-> OwnResult(i)]

\* C22: in part_000 the resolver returns or fails only after every task has
\* finished, and what it returns is fixed by the answers to each suggestion's
\* own searches, whatever the order in which the tasks ran.
C22_OutputIndependentOfInterleaving ==
    (variant = "part_000" /\ outcome # Pending) =>
        /\ \A i \in 1..Len(aiTracks) : pc[i] = "done"
        /\ outcome.state = "threw" <=> AllNull(OwnResults)
        /\ outcome.state = "returned" => outcome.tracks = OwnResults

\* two suggestions, each found by its lenient search only, were returned
C22_TwoTasksJoined ==
    /\ variant = "part_000"
    /\ outcome.state = "returned"
    /\ Len(aiTracks) = 2
    /\ calls = <<2, 2>>
    /\ aiTracks[1] # aiTracks[2]
    /\ outcome.tracks[1] # NULL /\ outcome.tracks[2] # NULL

-----------------------------------------------------------------------------
(* Error messages *)

\* the message of the class a failure belongs to
MessageOfClass(e) ==
    IF "Failed to parse AI response" \in e \/ "No JSON object found" \in e
        THEN {"AI returned an invalid response"}
    ELSE IF "Service Unavailable" \in e \/ "503" \in e
        THEN {"AI service is temporarily unavailable"}
    ELSE IF "rate limit" \in e \/ "429" \in e
        THEN {"Too many requests"}
    ELSE IF "contains no songs" \in e \/ "could be found on Spotify" \in e
        THEN {"AI didn't return any valid songs"}
    ELSE e

\* C23: getErrorMessage gives every failure the message of its own class: a
\* parser failure, whatever its detail, the invalid-response message; a 503 or
\* Service Unavailable the service-unavailable message; a 429 or rate limit
\* the too-many-requests message; no songs the no-valid-songs message.
C23_MessageOfOwnClass ==
    reported # {} => reported = MessageOfClass(caught)

\* C24: when Play Playlist reports Playing playlist, the player was asked to
\* play every uri of the list, in list order, also when play() launched the
\* application.
C24_SuccessPlaysWholeList ==
    (handler = "playPlaylist" /\ toast = "Playing playlist") =>
        /\ Len(player) = 1
        /\ player[1].uris = TrackUris(playTracks)

\* the requests of the player that started a track directly
DirectPlays == {n \in 1..Len(player) : player[n].op # "addToQueue"}

\* what the action does once an addToQueue call has completed
AfterAddToQueue ==
    (handler = "addSongsToQueue" /\ hpc = "addToQueue") =>
        \/ /\ hpc' = "loop"
           /\ Len(player') = Len(player) + 1
           /\ player'[Len(player')].op = "addToQueue"
        \/ /\ hpc' = "retry"
           /\ ~startedPlayback
           /\ player' = player
        \/ /\ hpc' = "done"
           /\ toast' = "Could not add songs to queue"
           /\ player' = player

-----------------------------------------------------------------------------
(* The loading flag *)

\* C26: isTuning, and with it isLoading, is true as long as a tune request
\* that was started has not finished, however overlapping requests interleave.
C26_LoadingWhileTuneInFlight ==
    (variant \in {"part_000", "part_009"} /\ \E t \in tasks : t.kind = "tune") =>
        loading /\ IsLoading

-----------------------------------------------------------------------------
(* Delete Version *)

\* the entries of a history
Members(h) == {h[i] : i \in 1..Len(h)}

\* the list shows the parent's history, of which the current playlist is one
InStep == localHistory = parentHistory /\ parentCurrent \in Members(parentHistory)

\* C27: Delete Version of the entry at index k leaves the parent with the old
\* history without that entry; the current playlist stays a member of a
\* non-empty history, and stays what it was when another entry was deleted.
C27_DeleteKeepsCurrentInHistory ==
    [][(deletes' # deletes /\ InStep) =>
          /\ parentHistory' = WithoutIndex(parentHistory, deleted'.index)
          /\ parentHistory' # <<>> => parentCurrent' \in Members(parentHistory')
          /\ parentCurrent # parentHistory[deleted'.index + 1] =>
                 parentCurrent' = parentCurrent]_vars

-----------------------------------------------------------------------------
(* Quick Look previews *)

\* the promise of call c is settled
PreviewSettled(c) == promise[c] # "pending"

-----------------------------------------------------------------------------
(* The paginated list against the folder *)

ShownFiles == {downloads[i] : i \in 1..Len(downloads)}

\* C29: once the pages are loaded to the end (hasMore is false and no load
\* is running), every file of the folder is shown, and shown exactly once.
C29_EveryFileShownOnce ==
    (mounted /\ ~isLoading /\ ~hasMore) =>
        /\ ShownFiles = folder
        /\ Cardinality(ShownFiles) = Len(downloads)


-----------------------------------------------------------------------------
(* Platform labels after a synchronisation *)

PlatformLabelsOn(onPr) == {n \in onPr : n[1] = PlatformPrefix}
WantedLabels(platforms) == {<<PlatformPrefix, platforms[i]>> : i \in 1..Len(platforms)}

\* C30: after syncPlatformLabels(platforms) the returned labels are exactly
\* the platform labels on the pull request; when every API call succeeded
\* they are the labels of the wanted platforms; the other labels are as
\* before the call; and the labels were listed at most once in the run.
C30_ReturnsPlatformLabelsOnPr ==
    lastCall.given =>
        /\ {returned[i] : i \in 1..Len(returned)} = PlatformLabelsOn(prLabels)
        /\ lastCall.succeeded =>
               PlatformLabelsOn(prLabels) = WantedLabels(lastCall.platforms)
        /\ prLabels \ PlatformLabelsOn(prLabels)
               = lastCall.before \ PlatformLabelsOn(lastCall.before)
        /\ listCalls <= 1

====
